---- MODULE Spec2Model ----
(***************************************************************************)
(* Discrete-event core of the combat simulator: the pending-action queue   *)
(* and Step loop (sim/core/sim.go), the execute-phase controller, and the  *)
(* aura state machine with its lazy expiration tracker (core/aura.go).     *)
(*                                                                         *)
(* Time is counted in abstract ticks.  The Go structs are kept as records: *)
(* sim (Simulation), enc (Encounter / Environment), actions (the heap of   *)
(* PendingAction objects, addressed by id), auras (the heap of Aura        *)
(* objects), units (one auraTracker per unit).  hist holds observations    *)
(* of what the callbacks saw; it is never read by the modelled code.       *)
(***************************************************************************)
EXTENDS Integers, Sequences, FiniteSets, TLC

VARIABLES pc, sim, enc, actions, auras, units, hist

vars == <<pc, sim, enc, actions, auras, units, hist>>

----------------------------------------------------------------------------
(* Program constants *)

\* time.Duration(math.MaxInt64), scaled to the tick range of the model
NeverExpires == 1000000

\* math.MaxFloat64, scaled likewise
MaxFloat64 == 1000000

\* index value of an aura that is in no dispatch array
Inactive == -1

\* priority base of pre-pull actions
ActionPriorityPrePull == 10

\* Encounter.ExecuteProportion_90 .. _20, in percent
ExecuteProportion == [p90 |-> 90, p45 |-> 45, p35 |-> 35, p25 |-> 25, p20 |-> 20]

----------------------------------------------------------------------------
(* Bounds of the model *)

\* PendingAction objects allocated in one iteration
MaxActions == 4

\* clock value beyond which no further periodic event is scheduled
MaxClock == 14

\* due times offered to AddPendingAction (some in the past, some beyond Duration)
AddTimes == {4, 8, 11}

Prios == {0, 1}

\* configured iteration durations
Durations == {10}

\* Encounter.EndFightAtHealth: 0 selects a duration-based encounter
EndHealths == {0, 20}

\* damage a callback may deal
HitSizes == {0, 7, 13}

\* damage of one weapon swing
WeaponHit == 7

\* swing and task periods
Periods == {4}

\* weapon attacks and tasks the units subscribe when the pull starts
Subscriptions == {[weapons |-> 0, tasks |-> 0], [weapons |-> 1, tasks |-> 1],
                  [weapons |-> 2, tasks |-> 0]}

\* configured pre-pull schedules (DoAt offsets, sorted)
PrepullConfigs == {<< >>, <<-2>>}

\* calls made on the auras in the aura specification, and its latest clock
MaxAuraOps == 5

MaxAuraClock == 4

\* the encounter length of the aura specifications
AuraFight == 20

\* Aura.Duration of the auras that expire
AuraDurations == {2, 3}

\* arguments of SetStacks in the aura specification
StackArgs == {0, 3}

\* what UpdateExpires adds to the expiry
Extension == 1

\* calls made in the lifecycle specification, and its latest clock
MaxLifeOps == 4

MaxLifeClock == 3

\* arguments of SetStacks in the lifecycle specification
StackCalls == {-1, 0, 1, 3}

\* calls made in the phase specification, and its latest clock
MaxPhaseOps == 4

MaxPhaseClock == 10

\* EndFightAtHealth of the damage-based encounter of the phase specification
PhaseHealth == 1000

\* cumulative damage the encounter may have taken between two advances
DamagePoints == {120, 500, 700, 880, 1000}

\* damage one phase callback may deal
PhaseHits == {0, 130}

\* the generator of the randomness specification: its states are 0 ..
\* RandModulus - 1 (the 64-bit state, narrowed), RandGamma its increment
RandModulus == 8

RandGamma == 3

\* call-site labels of the random draws
Labels == {"a", "b"}

\* Options.RandomSeed (0: seed the root stream from the clock)
RandomSeeds == {0, 5}

\* what time.Now().UnixNano() may answer
TimeSeeds == {3, 6}

\* iteration indexes passed to reseedRands
Iterations == {1, 2}

\* calls made in the randomness specification, and draws kept on record
MaxRandOps == 5

MaxDraws == 2

\* probabilities passed to Proc, as numerators over RandModulus
Probabilities == {0, 3, RandModulus}

\* Options.Iterations of a run is 1 or MaxIterations; MaxRunDraws random
\* draws are made in one run
MaxIterations == 3

MaxRunDraws == 2

\* the labels auras are registered under ("" is no label), the handler sets
\* a registration comes with, and the cap on the registered auras of a unit
AuraLabels == {"", "bleed", "armor"}

HandlerSets == {{}, {"onSpellHitDealtAuras"}}

AuraCap == 200

\* the calls of the registration specification
MaxRegisterOps == 5

\* the times callbacks reschedule a weapon attack or a task to, from the
\* clock, and the number of such calls in an iteration
RescheduleDelays == {0, 1, 2}

MaxReschedules == 2

\* the fatal defects code called from an iteration raises
Defects == {"duplicate label", "illegal stacks", "late registration",
            "too many auras", "active at reset"}

----------------------------------------------------------------------------
(* Helpers *)

Min(a, b) == IF a <= b THEN a ELSE b

Max(a, b) == IF a >= b THEN a ELSE b

Last(s) == s[Len(s)]

Front(s) == SubSeq(s, 1, Len(s) - 1)

\* the world the handlers operate on
Cur == [pc |-> pc, sim |-> sim, enc |-> enc, actions |-> actions,
        auras |-> auras, units |-> units, hist |-> hist]

Commit(w) ==
    \E x \in {w} :
        /\ pc' = x.pc
        /\ sim' = x.sim
        /\ enc' = x.enc
        /\ actions' = x.actions
        /\ auras' = x.auras
        /\ units' = x.units
        /\ hist' = x.hist

\* a Go panic: the run is abandoned
Panic(w) == [w EXCEPT !.pc = "panic"]

\* what the stack bookkeeping of Aura.SetStacks and Aura.Deactivate keeps
\* true of every aura
StacksInRange(w) ==
    \A a \in 1..Len(w.auras) :
        /\ 0 <= w.auras[a].stacks
        /\ w.auras[a].stacks <= w.auras[a].MaxStacks
        /\ w.auras[a].stacks > 0 => w.auras[a].active

\* a callback runs and reads sim.CurrentTime
Observe(w) ==
    [w EXCEPT !.hist.hookBad = @ \/ ~StacksInRange(w),
              !.hist.rewound = @ \/ (w.hist.seen /\ w.sim.CurrentTime < w.hist.obsLast),
              !.hist.rewoundPull =
                  @ \/ (w.hist.seenPull /\ w.sim.CurrentTime < w.hist.obsLast),
              !.hist.obsLast = w.sim.CurrentTime,
              !.hist.seen = TRUE,
              !.hist.seenPull = @ \/ (w.pc \in {"loop", "finished"})]

\* one entry of hist.log: what happened inside the handler now running
Log(w, ev) == [w EXCEPT !.hist.log = Append(@, ev)]

----------------------------------------------------------------------------
(* Aura state machine *)

\* the per-unit lists an aura can be a member of: the expiration-scan list
\* and the per-category dispatch arrays (two of the eleven categories: one
\* whose fan-out skips inactive auras, one whose fan-out does not)
Cats == {"onApplyEffectsAuras", "onSpellHitDealtAuras"}

ListNames == {"activeAuras"} \cup Cats

\* the exclusive-effect categories of a unit
Categories == {"c1", "c2", "c3"}

\* func removeBySwappingToBack(arr, removeIdx), removeIdx counted from 0
removeBySwappingToBack(arr, removeIdx) ==
    SubSeq([arr EXCEPT ![removeIdx + 1] = arr[Len(arr)]], 1, Len(arr) - 1)

\* Aura.IsActive
IsActive(w, a) == w.auras[a].active

\* Aura.ExpiresAt
ExpiresAt(w, a) == w.auras[a].expires

\* Aura.Refresh
Refresh(w, a) ==
    LET au == w.auras[a]
        e  == w.sim.CurrentTime + au.Duration
        w0 == [w EXCEPT !.auras[a].refreshedAt = w.sim.CurrentTime,
                        !.auras[a].touched = FALSE]
    IN  IF au.Duration = NeverExpires
        THEN [w0 EXCEPT !.auras[a].expires = NeverExpires]
        ELSE IF e < w.units[au.Unit].minExpires
             THEN [w0 EXCEPT !.auras[a].expires = e,
                             !.units[au.Unit].minExpires = e,
                             !.sim.minTrackerTime = Min(@, e)]
             ELSE [w0 EXCEPT !.auras[a].expires = e]

\* Aura.UpdateExpires
UpdateExpires(w, a, newExpires) ==
    [w EXCEPT !.auras[a].expires = newExpires, !.auras[a].touched = TRUE]

\* the list bookkeeping of Aura.Activate: append to every list the aura
\* belongs in and remember the position
Register(w, a) ==
    LET au == w.auras[a]
        u  == au.Unit
        L  == w.units[u].lists
        in(c) == IF c = "activeAuras" THEN au.Duration # NeverExpires
                 ELSE c \in au.handlers
    IN  [w EXCEPT !.units[u].lists = [c \in ListNames |->
                        IF in(c) THEN Append(L[c], a) ELSE L[c]],
                  !.auras[a].index = [c \in ListNames |->
                        IF in(c) THEN Len(L[c]) ELSE au.index[c]]]

\* the swap-removal without the update of the index of the element that
\* was swapped in
Unregister_NoFixup(w, a) ==
    LET au == w.auras[a]
        u  == au.Unit
        L  == w.units[u].lists
        idx == au.index
        NL == [c \in ListNames |->
                 IF idx[c] # Inactive THEN removeBySwappingToBack(L[c], idx[c])
                 ELSE L[c]]
    IN  [w EXCEPT !.units[u].lists = NL,
                  !.auras[a].index = [c \in ListNames |-> Inactive]]

\* the list bookkeeping of Aura.Deactivate: swap-remove from every list the
\* aura has an index in, and fix up the index of the element swapped in
Unregister(w, a) ==
    LET au == w.auras[a]
        u  == au.Unit
        L  == w.units[u].lists
        idx == au.index
        NL == [c \in ListNames |->
                 IF idx[c] # Inactive THEN removeBySwappingToBack(L[c], idx[c])
                 ELSE L[c]]
        moved(b, c) == /\ idx[c] # Inactive
                       /\ idx[c] < Len(NL[c])
                       /\ NL[c][idx[c] + 1] = b
    IN  [w EXCEPT !.units[u].lists = NL,
                  !.auras = [b \in DOMAIN w.auras |->
                      IF b = a
                      THEN [w.auras[b] EXCEPT !.index = [c \in ListNames |-> Inactive]]
                      ELSE [w.auras[b] EXCEPT !.index = [c \in ListNames |->
                                IF moved(b, c) THEN idx[c] ELSE w.auras[b].index[c]]]]]

RECURSIVE Activate(_, _)
RECURSIVE Deactivate(_, _)
RECURSIVE SetStacks(_, _, _)

\* what the OnGain hook of aura a finds done: the aura is active, its times
\* are stamped, and it is in every list it belongs in, at its index
GainConsistent(w, a) ==
    LET au == w.auras[a]
        L  == w.units[au.Unit].lists
    IN  /\ au.active
        /\ au.startTime = w.sim.CurrentTime
        /\ au.expires = IF au.Duration = NeverExpires THEN NeverExpires
                        ELSE w.sim.CurrentTime + au.Duration
        /\ \A c \in ListNames :
               (IF c = "activeAuras" THEN au.Duration # NeverExpires
                ELSE c \in au.handlers)
                   => /\ au.index[c] # Inactive
                      /\ au.index[c] < Len(L[c])
                      /\ L[c][au.index[c] + 1] = a

\* what the OnExpire hook of aura a finds done: the aura is inactive, in no
\* list, with every listed aura at its index, without stacks, and holding
\* no exclusive-effect category
ExpireConsistent(w, a) ==
    LET au == w.auras[a]
        L  == w.units[au.Unit].lists
    IN  /\ ~au.active
        /\ au.stacks = 0
        /\ \A c \in ListNames :
               /\ au.index[c] = Inactive
               /\ \A p \in 1..Len(L[c]) :
                      /\ L[c][p] # a
                      /\ w.auras[L[c][p]].index[c] = p - 1
        /\ \A c \in Categories : w.units[au.Unit].activeEffect[c] # a

\* the OnGain hook: the handlers chained by ApplyOnGain, here the one
\* AttachDependentAura installs
OnGain(w, a) ==
    LET w1 == Observe(Log([w EXCEPT !.hist.gainBad = @ \/ ~GainConsistent(w, a)],
                          <<"OnGain", a>>))
        sib == w.auras[a].sibling
    IN  IF sib = 0 THEN w1 ELSE Activate(w1, sib)

\* the OnExpire hook
OnExpire(w, a) ==
    LET w1 == Observe(Log([w EXCEPT !.hist.expireBad = @ \/ ~ExpireConsistent(w, a)],
                          <<"OnExpire", a>>))
        sib == w.auras[a].sibling
        hk  == w.auras[a].expireHook
    IN  IF sib # 0 THEN Deactivate(w1, sib)
        ELSE IF hk.op = "Activate" THEN Activate(w1, hk.aura)
        ELSE IF hk.op = "Deactivate" THEN Deactivate(w1, hk.aura)
        ELSE w1

\* the OnStacksChange hook without the test of sibling.MaxStacks
OnStacksChange_NoMaxStacksTest(w, a, oldStacks, newStacks) ==
    LET w1 == Observe(Log(w, <<"OnStacksChange", a, oldStacks, newStacks>>))
        sib == w.auras[a].sibling
    IN  IF sib = 0 THEN w1
        ELSE SetStacks(w1, sib, newStacks)

\* the OnStacksChange hook
OnStacksChange(w, a, oldStacks, newStacks) ==
    LET w1 == Observe(Log(w, <<"OnStacksChange", a, oldStacks, newStacks>>))
        sib == w.auras[a].sibling
    IN  IF sib = 0 \/ w.auras[sib].MaxStacks = 0 THEN w1
        ELSE SetStacks(w1, sib, newStacks)

\* the priority of the exclusive effect aura a has in category c
PriorityIn(w, a, c) ==
    LET E == w.auras[a].ExclusiveEffects
    IN  E[CHOOSE i \in 1..Len(E) : E[i].Category = c].Priority

\* ExclusiveEffect.Deactivate for effect i of aura a
EffectDeactivate(w, a, i) ==
    LET ee == w.auras[a].ExclusiveEffects[i]
        u  == w.auras[a].Unit
    IN  IF w.units[u].activeEffect[ee.Category] = a
        THEN Log([w EXCEPT !.units[u].activeEffect[ee.Category] = 0],
                 <<"released", a, ee.Category>>)
        ELSE w

RECURSIVE DeactivateEffects(_, _, _, _)
\* the loops of Activate and of Deactivate over aura.ExclusiveEffects that
\* call ExclusiveEffect.Deactivate on the effects j..n
DeactivateEffects(w, a, j, n) ==
    IF j > n THEN w ELSE DeactivateEffects(EffectDeactivate(w, a, j), a, j + 1, n)

\* ExclusiveEffect.Activate for effect i of aura a refuses: a stronger
\* effect of another aura holds the category
Refuses(w, a, i) ==
    LET ee == w.auras[a].ExclusiveEffects[i]
        h  == w.units[w.auras[a].Unit].activeEffect[ee.Category]
    IN  h # 0 /\ h # a /\ PriorityIn(w, h, ee.Category) > ee.Priority

\* ExclusiveEffect.Activate for effect i of aura a when it does not refuse:
\* the aura of a weaker holder is deactivated and the effect becomes the
\* category's active effect
EffectActivate(w, a, i) ==
    LET ee == w.auras[a].ExclusiveEffects[i]
        u  == w.auras[a].Unit
        h  == w.units[u].activeEffect[ee.Category]
    IN  IF h = a THEN w
        ELSE Log([(IF h # 0 THEN Deactivate(w, h) ELSE w)
                      EXCEPT !.units[u].activeEffect[ee.Category] = a],
                 <<"acquired", a, ee.Category>>)

\* the roll-back in Activate that leaves out the effect acquired last
RollBack_AllButLast(w, a, i) == DeactivateEffects(w, a, 1, i - 2)

\* the roll-back in Activate after effect i refused: the effects before i
RollBack(w, a, i) == DeactivateEffects(w, a, 1, i - 1)

\* Activate invoking OnGain before the aura has joined the lists
Gain_HookFirst(w, a) ==
    Register(OnGain(Refresh([w EXCEPT !.auras[a].active = TRUE,
                                      !.auras[a].startTime = w.sim.CurrentTime],
                            a), a), a)

\* Aura.Activate after the exclusive effects: mark active, stamp the times,
\* join the lists, and then invoke OnGain
Gain(w, a) ==
    OnGain(Register(Refresh([w EXCEPT !.auras[a].active = TRUE,
                                      !.auras[a].startTime = w.sim.CurrentTime],
                            a), a), a)

RECURSIVE ActivateEffects(_, _, _)
\* Aura.Activate from the loop over aura.ExclusiveEffects on, at effect i
ActivateEffects(w, a, i) ==
    IF i > Len(w.auras[a].ExclusiveEffects) THEN Gain(w, a)
    ELSE IF Refuses(w, a, i)
    THEN RollBack(Log(w, <<"blocked", a, w.auras[a].ExclusiveEffects[i].Category>>), a, i)
    ELSE ActivateEffects(EffectActivate(w, a, i), a, i + 1)

\* Activate without its test of IsActive
Activate_AlwaysRegisters(w, a) ==
    LET au == w.auras[a]
        w0 == [w EXCEPT !.auras[a].lastCall = "Activate",
                        !.auras[a].counted = TRUE]
    IN  IF w.pc = "panic" THEN w
        ELSE IF au.Duration = 0 THEN Panic(w0)
        ELSE ActivateEffects(w0, a, 1)

\* Aura.Activate
Activate(w, a) ==
    LET au == w.auras[a]
        w0 == [w EXCEPT !.auras[a].lastCall = "Activate",
                        !.auras[a].counted = TRUE]
    IN  IF w.pc = "panic" THEN w
        ELSE IF au.active THEN Refresh(w0, a)
        ELSE IF au.Duration = 0 THEN Panic(w0)
        ELSE ActivateEffects(w0, a, 1)

\* SetStacks without its test for an inactive aura
SetStacks_NoActiveTest(w, a, n) ==
    LET au == w.auras[a]
        newStacks == Min(n, au.MaxStacks)
        w1 == OnStacksChange([w EXCEPT !.auras[a].stacks = newStacks],
                             a, au.stacks, newStacks)
    IN  IF w.pc = "panic" THEN w
        ELSE IF n < 0 \/ au.MaxStacks = 0 THEN Panic(w)
        ELSE IF au.stacks = newStacks THEN w
        ELSE IF w1.pc # "panic" /\ w1.auras[a].stacks = 0 THEN Deactivate(w1, a)
        ELSE w1

\* SetStacks without the clamp to MaxStacks
SetStacks_NoClamp(w, a, n) ==
    LET au == w.auras[a]
        w1 == OnStacksChange([w EXCEPT !.auras[a].stacks = n], a, au.stacks, n)
    IN  IF w.pc = "panic" THEN w
        ELSE IF (~au.active /\ n # 0) \/ n < 0 \/ au.MaxStacks = 0 THEN Panic(w)
        ELSE IF au.stacks = n THEN w
        ELSE IF w1.pc # "panic" /\ w1.auras[a].stacks = 0 THEN Deactivate(w1, a)
        ELSE w1

\* SetStacks clamping a negative count to 0 instead of failing
SetStacks_ClampsBelow(w, a, n) ==
    LET au == w.auras[a]
        newStacks == Max(0, Min(n, au.MaxStacks))
        w1 == OnStacksChange([w EXCEPT !.auras[a].stacks = newStacks],
                             a, au.stacks, newStacks)
    IN  IF w.pc = "panic" THEN w
        ELSE IF (~au.active /\ newStacks # 0) \/ au.MaxStacks = 0 THEN Panic(w)
        ELSE IF au.stacks = newStacks THEN w
        ELSE IF w1.pc # "panic" /\ w1.auras[a].stacks = 0 THEN Deactivate(w1, a)
        ELSE w1

\* Aura.SetStacks
SetStacks(w, a, n) ==
    LET au == w.auras[a]
        newStacks == Min(n, au.MaxStacks)
        w1 == OnStacksChange([w EXCEPT !.auras[a].stacks = newStacks],
                             a, au.stacks, newStacks)
    IN  IF w.pc = "panic" THEN w
        ELSE IF (~au.active /\ n # 0) \/ n < 0 \/ au.MaxStacks = 0 THEN Panic(w)
        ELSE IF au.stacks = newStacks THEN w
        ELSE IF w1.pc # "panic" /\ w1.auras[a].stacks = 0 THEN Deactivate(w1, a)
        ELSE w1

\* Deactivate without the clearing of the stacks
Deactivate_KeepsStacks(w, a) ==
    LET au == w.auras[a]
        w0 == [w EXCEPT !.auras[a].lastCall = "Deactivate"]
        w1 == [w0 EXCEPT !.auras[a].active = FALSE,
                         !.auras[a].expires = 0,
                         !.auras[a].fadeTime = w.sim.CurrentTime]
        w2 == Unregister(w1, a)
    IN  IF w.pc = "panic" THEN w
        ELSE IF ~au.active THEN w0
        ELSE OnExpire(DeactivateEffects(w2, a, 1, Len(au.ExclusiveEffects)), a)

\* Deactivate clearing the stacks before it marks the aura inactive
Deactivate_StacksFirst(w, a) ==
    LET au == w.auras[a]
        w0 == [w EXCEPT !.auras[a].lastCall = "Deactivate"]
        w1 == IF au.stacks # 0 THEN SetStacks(w0, a, 0) ELSE w0
        w2 == Unregister([w1 EXCEPT !.auras[a].active = FALSE,
                                    !.auras[a].expires = 0,
                                    !.auras[a].fadeTime = w.sim.CurrentTime,
                                    !.auras[a].touched = FALSE], a)
    IN  IF w.pc = "panic" THEN w
        ELSE IF ~au.active THEN w0
        ELSE IF w1.pc = "panic" THEN w1
        ELSE OnExpire(DeactivateEffects(w2, a, 1, Len(au.ExclusiveEffects)), a)

\* Aura.Deactivate
Deactivate(w, a) ==
    LET au == w.auras[a]
        w0 == [w EXCEPT !.auras[a].lastCall = "Deactivate"]
        w1 == [w0 EXCEPT !.auras[a].active = FALSE,
                         !.auras[a].expires = 0,
                         !.auras[a].fadeTime = w.sim.CurrentTime,
                         !.auras[a].touched = FALSE]
        w2 == Unregister(w1, a)
        w3 == IF w2.auras[a].stacks # 0 THEN SetStacks(w2, a, 0) ELSE w2
    IN  IF w.pc = "panic" THEN w
        ELSE IF ~au.active THEN w0
        ELSE IF w3.pc = "panic" THEN w3
        ELSE OnExpire(DeactivateEffects(w3, a, 1, Len(au.ExclusiveEffects)), a)

\* Aura.SaveState: the AuraState it returns
SaveState(w, a) ==
    IF ~w.auras[a].active THEN [RemainingDuration |-> 0, Stacks |-> 0]
    ELSE [RemainingDuration |-> w.auras[a].expires - w.sim.CurrentTime,
          Stacks |-> w.auras[a].stacks]

\* the end of Aura.RestoreState: the stacks, for an aura that has stacks
RestoreStacks(w, a, state) ==
    IF w.pc = "panic" \/ w.auras[a].MaxStacks = 0 THEN w
    ELSE SetStacks(w, a, state.Stacks)

\* Aura.RestoreState
RestoreState(w, a, state) ==
    RestoreStacks(UpdateExpires(IF ~w.auras[a].active THEN Activate(w, a) ELSE w,
                                a, state.RemainingDuration + w.sim.CurrentTime),
                  a, state)

\* Aura.AddStack
AddStack(w, a) == SetStacks(w, a, w.auras[a].stacks + 1)

\* Aura.RemoveStack
RemoveStack(w, a) == SetStacks(w, a, Max(0, w.auras[a].stacks - 1))

\* the smallest expiration among the first n entries of a unit's activeAuras
RECURSIVE MinExpiresOf(_, _, _)
MinExpiresOf(w, L, n) ==
    IF n = 0 THEN NeverExpires
    ELSE Min(MinExpiresOf(w, L, n - 1), w.auras[L[n]].expires)

\* auraTracker.advance: deactivate what has expired, restarting the scan
\* after each deactivation, and recompute minExpires
RECURSIVE TrackerAdvance(_, _)
TrackerAdvance(w, u) ==
    LET L == w.units[u].lists["activeAuras"]
        due == {i \in 1..Len(L) : w.auras[L[i]].expires <= w.sim.CurrentTime}
        first == CHOOSE i \in due : \A j \in due : i <= j
    IN  IF w.pc = "panic" THEN w
        ELSE IF due = {}
        THEN [w EXCEPT !.units[u].minExpires = MinExpiresOf(w, L, Len(L))]
        ELSE TrackerAdvance(
                Deactivate([w EXCEPT !.units[u].minExpires =
                                         MinExpiresOf(w, L, first - 1)],
                           L[first]), u)

\* tryAdvance skipping the scan also when the clock equals minExpires
tryAdvance_LateByOne(w, u) ==
    IF w.sim.CurrentTime <= w.units[u].minExpires THEN w ELSE TrackerAdvance(w, u)

\* auraTracker.tryAdvance
tryAdvance(w, u) ==
    IF w.sim.CurrentTime < w.units[u].minExpires THEN w ELSE TrackerAdvance(w, u)

----------------------------------------------------------------------------
(* Pending-action queue *)

\* id 0 is sentinelPendingAction; every other id indexes the actions heap
Sentinel == 0

NextActionAt(w, id) == IF id = Sentinel THEN NeverExpires ELSE w.actions[id].NextActionAt

Priority(w, id) == IF id = Sentinel THEN 0 ELSE w.actions[id].Priority

\* the scan of AddPendingAction: the position (counted from 1, the sentinel
\* being at 1 and skipped) in front of which the new action goes
\* the priority comparison of the scan reversed
InsertIndex_PriorityReversed(w, q, at, prio) ==
    LET hit == {p \in 2..Len(q) :
                   \/ NextActionAt(w, q[p]) < at
                   \/ (NextActionAt(w, q[p]) = at /\ Priority(w, q[p]) <= prio)}
    IN  IF hit = {} THEN Len(q) + 1
        ELSE CHOOSE p \in hit : \A r \in hit : p <= r

\* the priority comparison of the scan made strict
InsertIndex_StrictPriority(w, q, at, prio) ==
    LET hit == {p \in 2..Len(q) :
                   \/ NextActionAt(w, q[p]) < at
                   \/ (NextActionAt(w, q[p]) = at /\ Priority(w, q[p]) > prio)}
    IN  IF hit = {} THEN Len(q) + 1
        ELSE CHOOSE p \in hit : \A r \in hit : p <= r

\* AddPendingAction: the scan of pendingActions[1:] for the insertion index
InsertIndex(w, q, at, prio) ==
    LET hit == {p \in 2..Len(q) :
                   \/ NextActionAt(w, q[p]) < at
                   \/ (NextActionAt(w, q[p]) = at /\ Priority(w, q[p]) >= prio)}
    IN  IF hit = {} THEN Len(q) + 1
        ELSE CHOOSE p \in hit : \A r \in hit : p <= r

InsertAt(q, p, x) == SubSeq(q, 1, p - 1) \o <<x>> \o SubSeq(q, p, Len(q))

\* AddPendingAction without its scan: the new action always goes to the end
AddPendingAction_Appends(w, id) ==
    [w EXCEPT !.actions[id].consumed = FALSE,
              !.sim.pendingActions = Append(@, id)]

\* Simulation.AddPendingAction
AddPendingAction(w, id) ==
    LET q == w.sim.pendingActions
        p == InsertIndex(w, q, w.actions[id].NextActionAt, w.actions[id].Priority)
    IN  [w EXCEPT !.actions[id].consumed = FALSE,
                  !.sim.pendingActions = InsertAt(q, p, id)]

\* &PendingAction{NextActionAt: at, Priority: prio, OnAction: .., CleanUp: ..}
NewAction(w, at, prio, cleanUp, kind) ==
    [w EXCEPT !.actions = Append(@,
        [NextActionAt |-> at, Priority |-> prio, CleanUp |-> cleanUp,
         cancelled |-> FALSE, consumed |-> FALSE, kind |-> kind,
         hadCleanUp |-> cleanUp, onActionRuns |-> 0, cleanUpRuns |-> 0,
         disposed |-> 0, cancelledPending |-> FALSE, cancelledInFlight |-> FALSE,
         ranAt |-> 0])]

InQueue(w, id) == \E p \in 1..Len(w.sim.pendingActions) : w.sim.pendingActions[p] = id

\* PendingAction.Cancel: the action stays where it is in the queue; its
\* cleanup runs here, once, and the flag is set
Cancel(w, id) ==
    LET a  == w.actions[id]
        w1 == IF a.CleanUp
              THEN Observe(Log([w EXCEPT !.actions[id].cleanUpRuns = @ + 1,
                                         !.actions[id].CleanUp = FALSE],
                               <<"CleanUp", id>>))
              ELSE w
    IN  IF a.cancelled THEN w
        ELSE [w1 EXCEPT !.actions[id].cancelled = TRUE,
                        !.actions[id].cancelledPending = (a.onActionRuns = 0),
                        !.actions[id].cancelledInFlight =
                            (a.onActionRuns = 0 /\ ~InQueue(w, id))]

\* PendingAction.dispose: hands a pooled action back to the pool
dispose(w, id) ==
    IF id = Sentinel THEN w ELSE [w EXCEPT !.actions[id].disposed = @ + 1]

\* what a callback may do to the engine: nothing, deal damage, cancel an
\* action it holds a handle of, or schedule a new action
NoAdd == [on |-> FALSE, at |-> 0, prio |-> 0]

Adds == {[on |-> TRUE, at |-> t, prio |-> p] : t \in AddTimes, p \in Prios}

NoEffect == [dmg |-> 0, cancel |-> 0, add |-> NoAdd]

Effects ==
    {[dmg |-> d, cancel |-> 0, add |-> NoAdd] : d \in HitSizes}
    \cup {[dmg |-> 0, cancel |-> c, add |-> NoAdd] : c \in 1..MaxActions}
    \cup {[dmg |-> 0, cancel |-> 0, add |-> a] : a \in Adds}

\* actions scheduled by a unit's reset code carry a CleanUp hook, those
\* scheduled from a running callback do not
ApplyEffect(w, e) ==
    LET w1 == [w EXCEPT !.enc.DamageTaken = @ + e.dmg]
        w2 == IF e.cancel \in 1..Len(w1.actions) THEN Cancel(w1, e.cancel) ELSE w1
        w3 == IF e.add.on /\ Len(w2.actions) < w.enc.maxActions
              THEN [AddPendingAction(
                        NewAction(w2, e.add.at, e.add.prio, w.pc = "reset", "user"),
                        Len(w2.actions) + 1)
                    EXCEPT !.hist.lateAdd = @ \/ (w.pc = "loop")]
              ELSE w2
    IN  w3

\* an action, swing or task callback runs
ObserveRun(w) ==
    [Observe(w) EXCEPT !.hist.late = @ \/ (IF w.enc.EndFightAtHealth > 0
                           THEN w.enc.DamageTaken >= w.enc.EndFightAtHealth
                           ELSE w.sim.CurrentTime > w.sim.Duration),
                       !.hist.nrun = @ + 1]

----------------------------------------------------------------------------
(* Execute-phase controller and clock advance *)

\* Simulation.nextExecutePhase
nextExecutePhase(v) ==
    LET w   == [v EXCEPT !.hist.walk = Append(@, v.sim.executePhase)]
        efh == w.enc.EndFightAtHealth
        setup(phase, damage, health) ==
            IF efh > 0
            THEN [w EXCEPT !.sim.executePhase = phase,
                           !.sim.nextExecuteDuration = NeverExpires,
                           !.sim.nextExecuteDamage = ((100 - damage) * efh) \div 100]
            ELSE [w EXCEPT !.sim.executePhase = phase,
                           !.sim.nextExecuteDamage = MaxFloat64,
                           !.sim.nextExecuteDuration =
                               ((100 - health) * w.sim.Duration) \div 100]
        ph == w.sim.executePhase
    IN  CASE ph = 0   -> setup(100, 90, ExecuteProportion.p90)
          [] ph = 100 -> setup(90, 45, ExecuteProportion.p45)
          [] ph = 90  -> setup(45, 35, ExecuteProportion.p35)
          [] ph = 45  -> setup(35, 25, ExecuteProportion.p25)
          [] ph = 35  -> setup(25, 20, ExecuteProportion.p20)
          [] ph = 25  -> [w EXCEPT !.sim.executePhase = 20,
                                   !.sim.nextExecuteDuration = NeverExpires,
                                   !.sim.nextExecuteDamage = MaxFloat64]
          [] OTHER    -> Panic([w EXCEPT !.sim.nextExecuteDuration = NeverExpires,
                                         !.sim.nextExecuteDamage = MaxFloat64])

\* the registered execute-phase callbacks, each invoked with the new phase
RECURSIVE RunPhaseCallbacks(_, _, _)
RunPhaseCallbacks(w, n, hk) ==
    IF n = 0 \/ w.pc = "panic" THEN w
    ELSE RunPhaseCallbacks(
            ApplyEffect(Observe(Log(w, <<"PhaseCallback", w.sim.executePhase>>)), hk),
            n - 1, hk)

\* the threshold test of advance as a single conditional
PhaseLoop_Once(w, hk) ==
    IF w.pc = "panic" THEN w
    ELSE IF \/ w.sim.CurrentTime >= w.sim.nextExecuteDuration
            \/ w.enc.DamageTaken >= w.sim.nextExecuteDamage
    THEN RunPhaseCallbacks(nextExecutePhase(w), w.sim.executePhaseCallbacks, hk)
    ELSE w

\* the threshold loop of Simulation.advance
RECURSIVE PhaseLoop(_, _)
PhaseLoop(w, hk) ==
    IF w.pc = "panic" THEN w
    ELSE IF \/ w.sim.CurrentTime >= w.sim.nextExecuteDuration
            \/ w.enc.DamageTaken >= w.sim.nextExecuteDamage
    THEN PhaseLoop(RunPhaseCallbacks(nextExecutePhase(w),
                                     w.sim.executePhaseCallbacks, hk), hk)
    ELSE w

\* the tracker loop of Simulation.advance: minTrackerTime is read after the
\* call to tryAdvance returns
RECURSIVE ScanTrackers(_, _)
ScanTrackers(w, i) ==
    IF i > Len(w.sim.trackers) \/ w.pc = "panic" THEN w
    ELSE LET u  == w.sim.trackers[i]
             w1 == tryAdvance(w, u)
         IN  ScanTrackers([w1 EXCEPT !.sim.minTrackerTime =
                                         Min(@, w1.units[u].minExpires)], i + 1)

\* Simulation.advance
advance(w, nextTime, hk) ==
    LET w1 == PhaseLoop([w EXCEPT !.sim.CurrentTime = nextTime], hk)
    IN  IF w1.pc # "panic" /\ w1.sim.CurrentTime >= w1.sim.minTrackerTime
        THEN ScanTrackers([w1 EXCEPT !.sim.minTrackerTime = NeverExpires], 1)
        ELSE w1

----------------------------------------------------------------------------
(* Periodic weapon attacks and tasks *)

\* WeaponAttack.trySwing: swings when due and answers the next swing time
trySwing(w, i) ==
    LET wa == w.sim.weaponAttacks[i]
    IN  IF w.sim.CurrentTime < wa.swingAt THEN w
        ELSE [ObserveRun(Log(w, <<"Swing", i>>))
                EXCEPT !.enc.DamageTaken = @ + WeaponHit,
                       !.sim.weaponAttacks[i].swingAt = w.sim.CurrentTime + wa.speed,
                       !.hist.nswing = @ + 1]

\* Task.RunTask: runs when due and answers the next run time
RunTask(w, i) ==
    LET t == w.sim.tasks[i]
    IN  IF w.sim.CurrentTime < t.runAt THEN w
        ELSE [ObserveRun(Log(w, <<"Task", i>>))
                EXCEPT !.sim.tasks[i].runAt = w.sim.CurrentTime + t.period,
                       !.hist.ntask = @ + 1]

RECURSIVE ScanWeaponAttacks(_, _)
ScanWeaponAttacks(w, i) ==
    IF i > Len(w.sim.weaponAttacks) THEN w
    ELSE LET w1 == trySwing(w, i)
         IN  ScanWeaponAttacks(
                [w1 EXCEPT !.sim.minWeaponAttackTime =
                               Min(@, w1.sim.weaponAttacks[i].swingAt),
                           !.hist.scan =
                               Append(@, <<"weapon", i, w1.sim.weaponAttacks[i].swingAt>>)],
                i + 1)

RECURSIVE ScanTasks(_, _)
ScanTasks(w, i) ==
    IF i > Len(w.sim.tasks) THEN w
    ELSE LET w1 == RunTask(w, i)
         IN  ScanTasks([w1 EXCEPT !.sim.minTaskTime = Min(@, w1.sim.tasks[i].runAt),
                                  !.hist.scan =
                                      Append(@, <<"task", i, w1.sim.tasks[i].runAt>>)],
                       i + 1)

\* the guard in front of every call of Simulation.advance
\* the clock moved to the due time unconditionally
NeedsAdvance_Always(at, now) == TRUE

NeedsAdvance(at, now) == at > now

\* Simulation.advanceWeaponAttacks
advanceWeaponAttacks(w, hk) ==
    LET w1 == IF NeedsAdvance(w.sim.minWeaponAttackTime, w.sim.CurrentTime)
              THEN advance(w, w.sim.minWeaponAttackTime, hk) ELSE w
    IN  IF w1.pc = "panic" THEN w1
        ELSE ScanWeaponAttacks([w1 EXCEPT !.sim.minWeaponAttackTime = NeverExpires], 1)

\* Simulation.advanceTasks
advanceTasks(w, hk) ==
    LET w1 == IF NeedsAdvance(w.sim.minTaskTime, w.sim.CurrentTime)
              THEN advance(w, w.sim.minTaskTime, hk) ELSE w
    IN  IF w1.pc = "panic" THEN w1
        ELSE ScanTasks([w1 EXCEPT !.sim.minTaskTime = NeverExpires], 1)

----------------------------------------------------------------------------
(* Simulation.Step *)

\* which of the three event sources a Step turns to
\* Step without its weapon and task branches
StepSource_QueueOnly(head, minWeapon, minTask) == "queue"

\* Step with the task branch tested before the weapon branch
StepSource_TaskFirst(head, minWeapon, minTask) ==
    IF head >= minTask /\ minTask <= minWeapon THEN "task"
    ELSE IF head >= minWeapon THEN "weapon"
    ELSE "queue"

StepSource(head, minWeapon, minTask) ==
    IF head >= minWeapon /\ minWeapon <= minTask THEN "weapon"
    ELSE IF head >= minTask THEN "task"
    ELSE "queue"

\* the end-of-combat test with inclusive comparisons
EndReached_Inclusive(w, at) ==
    at >= w.sim.endOfCombatDuration \/ w.enc.DamageTaken >= w.sim.endOfCombatDamage

\* the end-of-combat test of Step for an event due at time at
EndReached(w, at) ==
    at > w.sim.endOfCombatDuration \/ w.enc.DamageTaken > w.sim.endOfCombatDamage

\* Step answers true
Finished(w) == [w EXCEPT !.pc = "finished", !.hist.lastStep.fin = TRUE]

\* unit.startPull: the units subscribe their weapon attacks (first swing
\* now) and their tasks (first run one period from now)
StartPull(w) ==
    LET now == w.sim.CurrentTime
        sp  == CHOOSE x \in Periods : TRUE
    IN  [w EXCEPT
           !.sim.weaponAttacks = [i \in 1..w.enc.weapons |-> [swingAt |-> now, speed |-> sp]],
           !.sim.minWeaponAttackTime = IF w.enc.weapons > 0 THEN Min(@, now) ELSE @,
           !.sim.tasks = [i \in 1..w.enc.tasks |-> [runAt |-> now + sp, period |-> sp]],
           !.sim.minTaskTime = IF w.enc.tasks > 0 THEN Min(@, now + sp) ELSE @]

\* observation: an action still queued is due before action id, or at the
\* same time with a higher priority
Overtaken(w, id) ==
    \E p \in 2..Len(w.sim.pendingActions) :
        LET o == w.sim.pendingActions[p]
        IN  \/ w.actions[o].NextActionAt < w.actions[id].NextActionAt
            \/ /\ w.actions[o].NextActionAt = w.actions[id].NextActionAt
               /\ w.actions[o].Priority > w.actions[id].Priority

\* pa.OnAction(sim)
OnAction(w, id, eff) ==
    LET w1 == [ObserveRun(Log(w, <<"OnAction", id>>))
                 EXCEPT !.actions[id].onActionRuns = @ + 1,
                        !.hist.headBad = (id # Sentinel /\ Overtaken(w, id)),
                        !.actions[id].ranAt = w.sim.CurrentTime,
                        !.hist.execLog = Append(@, id)]
    IN  IF id = Sentinel THEN Panic(Log(w, <<"OnAction", Sentinel>>))
        ELSE ApplyEffect(IF w.actions[id].kind = "start" THEN StartPull(w1) ELSE w1, eff)

\* Step without its second test of pa.cancelled
RecheckCancelled_Never(w, id) == FALSE

\* the second test of pa.cancelled in Step, after the clock advance
RecheckCancelled(w, id) == id # Sentinel /\ w.actions[id].cancelled

\* the queue branch of Step: pop the last entry and run it
StepQueue(w, hk, eff) ==
    LET q  == w.sim.pendingActions
        id == Last(q)
        at == NextActionAt(w, id)
        w1 == [w EXCEPT !.sim.pendingActions = Front(q),
                        !.actions = IF id = Sentinel THEN @
                                    ELSE [@ EXCEPT ![id].consumed = TRUE]]
        w2 == IF NeedsAdvance(at, w1.sim.CurrentTime) THEN advance(w1, at, hk) ELSE w1
    IN  IF id # Sentinel /\ w.actions[id].cancelled THEN dispose(w1, id)
        ELSE IF EndReached(w1, at) THEN Finished(dispose(w1, id))
        ELSE IF w2.pc = "panic" THEN w2
        ELSE IF RecheckCancelled(w2, id) THEN dispose(w2, id)
        ELSE LET w3 == OnAction(w2, id, eff)
             IN  IF w3.pc = "panic" THEN w3 ELSE dispose(w3, id)

\* Simulation.Step
Step(w, hk, eff) ==
    LET id   == Last(w.sim.pendingActions)
        head == NextActionAt(w, id)
        mw   == w.sim.minWeaponAttackTime
        mt   == w.sim.minTaskTime
        src  == StepSource(head, mw, mt)
        due  == CASE src = "weapon" -> mw [] src = "task" -> mt [] OTHER -> head
        w0   == [w EXCEPT !.hist.log = << >>,
                          !.hist.scan = << >>,
                          !.hist.headBad = FALSE,
                          !.hist.nrun = 0,
                          !.hist.nswing = 0,
                          !.hist.ntask = 0,
                          !.hist.steps = Min(@ + 1, 2),
                          !.hist.lastStep =
                              [src |-> src, fin |-> FALSE, head |-> head,
                               minWeapon |-> mw, minTask |-> mt, due |-> due,
                               id |-> id, now |-> w.sim.CurrentTime,
                               dmg |-> w.enc.DamageTaken,
                               cancelled |-> (src = "queue" /\ id # Sentinel
                                              /\ w.actions[id].cancelled)]]
    IN  CASE src = "weapon" ->
               IF EndReached(w0, mw) THEN Finished(w0) ELSE advanceWeaponAttacks(w0, hk)
          [] src = "task" ->
               IF EndReached(w0, mt) THEN Finished(w0) ELSE advanceTasks(w0, hk)
          [] OTHER -> StepQueue(w0, hk, eff)

----------------------------------------------------------------------------
(* One iteration: reset, PrePull, the Step loop, Cleanup *)

\* Aura.reset that leaves an active or stacked aura as it is
AuraReset_NoCheck(w, a) ==
    LET w1 == [w EXCEPT !.auras[a].counted = FALSE,
                        !.auras[a].fadeTime = -NeverExpires]
    IN  IF w.pc = "panic" THEN w
        ELSE IF w.auras[a].OnReset
        THEN Activate(Observe(Log(w1, <<"OnReset", a>>)), a)
        ELSE w1

\* Aura.reset: the checks, metrics.reset(), fadeTime, the OnReset hook
AuraReset(w, a) ==
    LET w1 == [w EXCEPT !.auras[a].counted = FALSE,
                        !.auras[a].fadeTime = -NeverExpires]
    IN  IF w.pc = "panic" THEN w
        ELSE IF w.auras[a].active \/ w.auras[a].stacks # 0 THEN Panic(w)
        ELSE IF w.auras[a].OnReset
        THEN Activate(Observe(Log(w1, <<"OnReset", a>>)), a)
        ELSE w1

\* the loop of auraTracker.reset over the auras of unit u
RECURSIVE ResetAuras(_, _, _)
ResetAuras(w, u, a) ==
    IF a > Len(w.auras) THEN w
    ELSE ResetAuras(IF w.auras[a].Unit = u THEN AuraReset(w, a) ELSE w, u, a + 1)

\* auraTracker.reset for every unit in turn, and the unit joining
\* sim.trackers
RECURSIVE ResetUnits(_, _)
ResetUnits(w, u) ==
    IF u > Len(w.units) \/ w.pc = "panic" THEN w
    ELSE ResetUnits(
            ResetAuras(
                [w EXCEPT !.units[u].lists = [c \in ListNames |-> << >>],
                          !.units[u].minExpires = NeverExpires,
                          !.sim.trackers = Append(@, u),
                          !.sim.minTrackerTime = Min(@, NeverExpires)],
                u, 1),
            u + 1)

\* Environment.reset: the encounter starts undamaged, every unit resets its
\* tracker, and the reset effects run (they register the phase callbacks)
EnvironmentReset(w) ==
    LET w1 == ResetUnits([w EXCEPT !.enc.DamageTaken = 0], 1)
    IN  IF w1.pc = "panic" THEN w1
        ELSE IF w.enc.resetEffects > 0
        THEN [Observe(Log(w1, <<"ResetEffect">>))
                EXCEPT !.sim.executePhaseCallbacks = w.enc.phaseCallbacks]
        ELSE w1

\* Simulation.reset
reset(w) ==
    LET w1 == [w EXCEPT !.sim.Duration = w.enc.BaseDuration,
                        !.sim.pendingActions = <<Sentinel>>,
                        !.sim.executePhase = 0,
                        !.actions = << >>,
                        !.hist = [@ EXCEPT !.log = << >>, !.execLog = << >>,
                                           !.seen = FALSE, !.rewound = FALSE,
                                           !.walk = << >>, !.seenPull = FALSE,
                                           !.rewoundPull = FALSE]]
        w2 == nextExecutePhase(w1)
        w3 == [w2 EXCEPT
                 !.sim.executePhaseCallbacks = 0,
                 !.sim.endOfCombatDuration =
                     IF w.enc.EndFightAtHealth > 0 THEN NeverExpires ELSE w1.sim.Duration,
                 !.sim.endOfCombatDamage =
                     IF w.enc.EndFightAtHealth > 0 THEN w.enc.EndFightAtHealth
                     ELSE MaxFloat64,
                 !.sim.CurrentTime = 0,
                 !.sim.trackers = << >>,
                 !.sim.minTrackerTime = NeverExpires,
                 !.sim.weaponAttacks = << >>,
                 !.sim.minWeaponAttackTime = NeverExpires,
                 !.sim.tasks = << >>,
                 !.sim.minTaskTime = NeverExpires]
        w4 == EnvironmentReset(w3)
    IN  IF w4.pc = "panic" THEN w4 ELSE [w4 EXCEPT !.pc = "reset"]

\* the loop of PrePull over sim.prepullActions, i counted from 0
RECURSIVE AddPrepullActions(_, _)
AddPrepullActions(w, i) ==
    LET pp == w.enc.prepullActions
    IN  IF i >= Len(pp) THEN w
        ELSE AddPrepullActions(
                AddPendingAction(
                    NewAction(w, pp[i + 1], ActionPriorityPrePull + (Len(pp) - i),
                              FALSE, "prepull"),
                    Len(w.actions) + 1),
                i + 1)

\* Simulation.PrePull
PrePull(w) ==
    LET pp == w.enc.prepullActions
        w1 == IF Len(pp) > 0
              THEN AddPrepullActions([w EXCEPT !.sim.CurrentTime = pp[1]], 0)
              ELSE w
        w2 == AddPendingAction(
                  NewAction(w1, 0, ActionPriorityPrePull + Len(pp) + 1, FALSE, "start"),
                  Len(w1.actions) + 1)
    IN  [w2 EXCEPT !.pc = "loop"]

\* the loop of Cleanup disposing the actions without calling their hooks
RECURSIVE CleanUpActions_DisposeOnly(_, _)
CleanUpActions_DisposeOnly(w, p) ==
    IF p > Len(w.sim.pendingActions) THEN w
    ELSE CleanUpActions_DisposeOnly(dispose(w, w.sim.pendingActions[p]), p + 1)

\* the loop of Cleanup over sim.pendingActions
RECURSIVE CleanUpActions(_, _)
CleanUpActions(w, p) ==
    IF p > Len(w.sim.pendingActions) THEN w
    ELSE LET id == w.sim.pendingActions[p]
             w1 == IF id # Sentinel /\ w.actions[id].CleanUp
                   THEN Observe(Log([w EXCEPT !.actions[id].cleanUpRuns = @ + 1],
                                    <<"CleanUp", id>>))
                   ELSE w
         IN  CleanUpActions(dispose(w1, id), p + 1)

\* Aura.doneIteration
AuraDoneIteration(w, a) ==
    IF w.pc = "panic" THEN w
    ELSE IF w.auras[a].active \/ w.auras[a].stacks # 0 THEN Panic(w)
    ELSE [w EXCEPT !.auras[a].startTime = 0, !.auras[a].expires = 0]

RECURSIVE DoneAuras(_, _)
DoneAuras(w, a) ==
    IF a > Len(w.auras) THEN w ELSE DoneAuras(AuraDoneIteration(w, a), a + 1)

\* auraTracker.doneIteration: deactivate every aura that is still active,
\* restarting the scan after each one
RECURSIVE ExpireAllAuras(_)
ExpireAllAuras(w) ==
    LET act == {a \in 1..Len(w.auras) : w.auras[a].active}
    IN  IF w.pc = "panic" \/ act = {} THEN w
        ELSE ExpireAllAuras(Deactivate(w, CHOOSE a \in act : \A b \in act : a <= b))

\* Simulation.Cleanup
Cleanup(w) ==
    LET w0 == [w EXCEPT !.hist.log = << >>]
        w1 == IF w.enc.EndFightAtHealth = 0
              THEN [w0 EXCEPT !.sim.CurrentTime = w.sim.Duration]
              ELSE [w0 EXCEPT !.sim.Duration = w.sim.CurrentTime]
        w2 == DoneAuras(ExpireAllAuras(
                  Log(CleanUpActions(w1, 1), <<"doneIteration">>)), 1)
    IN  IF w2.pc = "panic" THEN w2 ELSE [w2 EXCEPT !.pc = "done"]

----------------------------------------------------------------------------
(* The queue specification: one iteration of the driver, no auras *)

ZeroSim ==
    [pendingActions |-> << >>, CurrentTime |-> 0, Duration |-> 0,
     executePhase |-> 0, executePhaseCallbacks |-> 0,
     nextExecuteDuration |-> 0, nextExecuteDamage |-> 0,
     endOfCombatDuration |-> 0, endOfCombatDamage |-> 0,
     minTrackerTime |-> 0, trackers |-> << >>,
     minWeaponAttackTime |-> 0, weaponAttacks |-> << >>,
     minTaskTime |-> 0, tasks |-> << >>]

NoStep ==
    [src |-> "none", fin |-> FALSE, head |-> 0, minWeapon |-> 0, minTask |-> 0,
     due |-> 0, id |-> 0, now |-> 0, dmg |-> 0, cancelled |-> FALSE]

ZeroHist ==
    [log |-> << >>, execLog |-> << >>, seen |-> FALSE, obsLast |-> 0,
     rewound |-> FALSE, seenPull |-> FALSE, rewoundPull |-> FALSE, late |-> FALSE, lateAdd |-> FALSE,
     nrun |-> 0, nswing |-> 0, ntask |-> 0, steps |-> 0, lastStep |-> NoStep,
     ops |-> 0, reAct |-> 0, hookBad |-> FALSE, call |-> <<"none", 0, 0>>,
     walk |-> << >>, gainBad |-> FALSE, expireBad |-> FALSE, scan |-> << >>,
     headBad |-> FALSE, wasActive |-> {}, expired |-> << >>,
     heads |-> {}]

\* duration-based encounters without periodic events; the reset effects, when
\* there are any, register one execute-phase callback
QueueEncounters ==
    {[EndFightAtHealth |-> 0, DamageTaken |-> 0, BaseDuration |-> d,
      prepullActions |-> pp, resetEffects |-> r, phaseCallbacks |-> r,
      weapons |-> 0, tasks |-> 0, maxActions |-> MaxActions] :
        d \in Durations, pp \in PrepullConfigs, r \in {0, 1}}

InitQ ==
    /\ pc = "new"
    /\ sim = ZeroSim
    /\ enc \in QueueEncounters
    /\ actions = << >>
    /\ auras = << >>
    /\ units = << >>
    /\ hist = ZeroHist

\* runOnce: sim.reset()
DoReset ==
    /\ pc = "new"
    /\ Commit(reset(Cur))

\* a unit's reset code schedules an action before the pull
DoAddPendingAction ==
    /\ pc = "reset"
    /\ Len(actions) + Len(enc.prepullActions) + 1 < enc.maxActions
    /\ \E a \in Adds :
          Commit(ApplyEffect(Cur, [dmg |-> 0, cancel |-> 0, add |-> a]))

\* runOnce: sim.PrePull()
DoPrePull ==
    /\ pc = "reset"
    /\ Commit(PrePull(Cur))

\* the effects worth offering to the phase callbacks of the coming Step:
\* none unless callbacks are registered and the Step moves the clock or
\* finds the next threshold reached
HookChoices ==
    LET id  == Last(sim.pendingActions)
        due == Min(Min(NextActionAt(Cur, id), sim.minWeaponAttackTime), sim.minTaskTime)
    IN  IF /\ sim.executePhaseCallbacks > 0
           /\ due > sim.CurrentTime
           /\ (due >= sim.nextExecuteDuration \/ enc.DamageTaken >= sim.nextExecuteDamage)
        THEN {e \in Effects : /\ e.dmg = 0
                              /\ e.cancel # 0 => /\ e.cancel <= Len(actions)
                                                 /\ ~actions[e.cancel].cancelled
                                                 /\ actions[e.cancel].onActionRuns = 0
                              /\ e.add.on => Len(actions) < enc.maxActions}
        ELSE {NoEffect}

\* the effects worth offering to the OnAction callback of the coming Step
ActionChoices ==
    LET id == Last(sim.pendingActions)
    IN  IF StepSource(NextActionAt(Cur, id), sim.minWeaponAttackTime, sim.minTaskTime)
              = "queue"
        THEN {e \in Effects : /\ e.dmg # 0 => enc.EndFightAtHealth > 0
                              /\ e.cancel # 0 => /\ e.cancel <= Len(actions)
                                                 /\ e.cancel # id
                                                 /\ ~actions[e.cancel].cancelled
                                                 /\ actions[e.cancel].onActionRuns = 0
                              /\ e.add.on => Len(actions) < enc.maxActions}
        ELSE {NoEffect}

\* runPendingActions: one call of sim.Step()
DoStep ==
    /\ pc = "loop"
    /\ sim.CurrentTime <= MaxClock
    /\ \E hk \in HookChoices : \E eff \in ActionChoices :
          Commit(Step(Cur, hk, eff))

\* runOnce: sim.Cleanup()
DoCleanup ==
    /\ pc = "finished"
    /\ Commit(Cleanup(Cur))

NextQ ==
    \/ DoReset
    \/ DoAddPendingAction
    \/ DoPrePull
    \/ DoStep
    \/ DoCleanup

SpecQ == InitQ /\ [][NextQ]_vars

----------------------------------------------------------------------------
(* The step specification: the same driver with weapon attacks, tasks and
   health-based encounters, and fewer queued actions *)

StepEncounters ==
    {[EndFightAtHealth |-> h, DamageTaken |-> 0, BaseDuration |-> d,
      prepullActions |-> << >>, resetEffects |-> 0, phaseCallbacks |-> 0,
      weapons |-> sub.weapons, tasks |-> sub.tasks, maxActions |-> MaxActions - 1] :
        h \in EndHealths, d \in Durations, sub \in Subscriptions}

InitS ==
    /\ pc = "new"
    /\ sim = ZeroSim
    /\ enc \in StepEncounters
    /\ actions = << >>
    /\ auras = << >>
    /\ units = << >>
    /\ hist = ZeroHist

SpecS == InitS /\ [][NextQ]_vars

----------------------------------------------------------------------------
(* The aura specification: the callbacks of a running iteration call the
   aura operations, and Step advances the clock *)

\* an aura as registered (GetOrRegisterAura, AttachDependentAura) and reset;
\* OnReset: the aura has an OnReset hook, which activates it (a permanent
\* aura); counted: metrics.Procs is not 0
NewAura(unit, duration, maxStacks, handlers, sibling) ==
    [Unit |-> unit, Duration |-> duration, MaxStacks |-> maxStacks,
     handlers |-> handlers, sibling |-> sibling,
     active |-> FALSE, startTime |-> 0, expires |-> 0, fadeTime |-> 0, stacks |-> 0,
     index |-> [c \in ListNames |-> Inactive],
     OnReset |-> FALSE, counted |-> FALSE, ExclusiveEffects |-> << >>,
     saved |-> [RemainingDuration |-> 0, Stacks |-> 0], savedActive |-> FALSE,
     expireHook |-> [op |-> "none", aura |-> 0],
     lastCall |-> "none", refreshedAt |-> 0, touched |-> FALSE]

\* aura 1 is a stacking buff on unit 1 with aura 2, on unit 2, attached as
\* its dependent; aura 3 is a plain buff on unit 1 subscribed to both
\* categories
AuraConfigs ==
    {<<NewAura(1, d1, 2, {"onApplyEffectsAuras"}, 2),
       NewAura(2, d2, 2, {"onSpellHitDealtAuras"}, 0),
       NewAura(1, d3, 0, Cats, 0)>> :
        d1 \in AuraDurations, d2 \in {NeverExpires}, d3 \in {3}}

NewUnit ==
    [lists |-> [c \in ListNames |-> << >>], minExpires |-> 0,
     activeEffect |-> [c \in Categories |-> 0]]

AuraEncounter ==
    [EndFightAtHealth |-> 0, DamageTaken |-> 0, BaseDuration |-> AuraFight,
     prepullActions |-> << >>, resetEffects |-> 0, phaseCallbacks |-> 0,
     weapons |-> 0, tasks |-> 0, maxActions |-> 0]

\* the world after construction and sim.reset()
AuraWorld(cfg) ==
    reset([pc |-> "new", sim |-> ZeroSim, enc |-> AuraEncounter, actions |-> << >>,
           auras |-> cfg, units |-> <<NewUnit, NewUnit>>, hist |-> ZeroHist])

InitA ==
    \E cfg \in AuraConfigs :
        \E w \in {AuraWorld(cfg)} :
            /\ pc = "aura"
            /\ sim = w.sim
            /\ enc = w.enc
            /\ actions = w.actions
            /\ auras = w.auras
            /\ units = w.units
            /\ hist = w.hist

\* the handler that starts now: the log is per handler; reAct names the
\* aura when the handler is Activate on an aura that is active
Op(w, re) == [w EXCEPT !.hist.log = << >>, !.hist.ops = @ + 1, !.hist.reAct = re]

\* a callback calls aura.Activate(sim)
DoActivate ==
    /\ pc = "aura"
    /\ hist.ops < MaxAuraOps
    /\ \E a \in 1..Len(auras) : Commit(Activate(Op(Cur, IF auras[a].active THEN a ELSE 0), a))

\* a callback calls aura.Deactivate(sim)
DoDeactivate ==
    /\ pc = "aura"
    /\ hist.ops < MaxAuraOps
    /\ \E a \in 1..Len(auras) : Commit(Deactivate(Op(Cur, 0), a))

\* a callback calls aura.SetStacks(sim, n)
DoSetStacks ==
    /\ pc = "aura"
    /\ hist.ops < MaxAuraOps
    /\ \E a \in 1..Len(auras) : \E n \in StackArgs :
          Commit(SetStacks(Op(Cur, 0), a, n))

\* a callback calls aura.Refresh(sim) on an active aura
DoRefresh ==
    /\ pc = "aura"
    /\ hist.ops < MaxAuraOps
    /\ \E a \in 1..Len(auras) :
          /\ auras[a].active
          /\ Commit(Refresh(Op(Cur, 0), a))

\* a callback extends an active aura: aura.UpdateExpires(aura.ExpiresAt() + d)
DoUpdateExpires ==
    /\ pc = "aura"
    /\ hist.ops < MaxAuraOps
    /\ \E a \in 1..Len(auras) :
          /\ auras[a].active
          /\ auras[a].Duration # NeverExpires
          /\ ~auras[a].touched
          /\ Commit(UpdateExpires(Op(Cur, 0), a,
                                  ExpiresAt(Cur, a) + Extension))

\* Step moves the clock to the next event
DoAdvance ==
    /\ pc = "aura"
    /\ hist.ops < MaxAuraOps
    /\ \E t \in (sim.CurrentTime + 1)..MaxAuraClock :
          Commit(advance(Op(Cur, 0), t, NoEffect))

NextA ==
    \/ DoActivate
    \/ DoDeactivate
    \/ DoSetStacks
    \/ DoRefresh
    \/ DoUpdateExpires
    \/ DoAdvance

SpecA == InitA /\ [][NextA]_vars

----------------------------------------------------------------------------
(* Claims about the pending-action queue and Step *)

ExecAt(i) == actions[hist.execLog[i]].NextActionAt

ExecPrio(i) == actions[hist.execLog[i]].Priority

\* C1: when every action was added before the first Step, the OnAction
\* callbacks run in nondecreasing order of NextActionAt and, among equal
\* NextActionAt, in nonincreasing order of Priority
C1_ExecutionOrder ==
    ~hist.lateAdd =>
        \A i, j \in 1..Len(hist.execLog) :
            i < j => \/ ExecAt(i) < ExecAt(j)
                     \/ (ExecAt(i) = ExecAt(j) /\ ExecPrio(i) >= ExecPrio(j))

\* two user actions due at the same time ran, the one added later (with the
\* higher priority) first
C1_Witness ==
    /\ ~hist.lateAdd
    /\ \E i, j \in 1..Len(hist.execLog) :
          /\ i < j
          /\ ExecAt(i) = ExecAt(j)
          /\ ExecPrio(i) > ExecPrio(j)
          /\ hist.execLog[i] > hist.execLog[j]
          /\ actions[hist.execLog[i]].kind = "user"

\* C2: actions with equal NextActionAt and equal Priority run in the order
\* in which AddPendingAction was called for them (ids are handed out in
\* that order), whatever else was added in between
C2_StableFIFO ==
    \A i, j \in 1..Len(hist.execLog) :
        (i < j /\ ExecAt(i) = ExecAt(j) /\ ExecPrio(i) = ExecPrio(j))
            => hist.execLog[i] < hist.execLog[j]

\* two full ties ran, with another action added between the two
C2_Witness ==
    \E i, j \in 1..Len(hist.execLog) :
        /\ i < j
        /\ ExecAt(i) = ExecAt(j)
        /\ ExecPrio(i) = ExecPrio(j)
        /\ hist.execLog[j] >= hist.execLog[i] + 2

C4_SentinelStays ==
    pc # "new" =>
        /\ Len(sim.pendingActions) >= 1
        /\ sim.pendingActions[1] = Sentinel
        /\ \A p \in 2..Len(sim.pendingActions) : sim.pendingActions[p] # Sentinel
        /\ \A i \in 1..Len(hist.log) : hist.log[i] # <<"OnAction", Sentinel>>

\* every real action has been popped, Step was called again and found only
\* the sentinel
C4_Witness ==
    /\ pc = "finished"
    /\ sim.pendingActions = <<Sentinel>>
    /\ hist.lastStep.id = Sentinel
    /\ Len(hist.execLog) >= 3

ClaimedSource(head, minWeapon, minTask) ==
    LET m == Min(head, Min(minWeapon, minTask))
    IN  IF minWeapon = m THEN "weapon" ELSE IF minTask = m THEN "task" ELSE "queue"

StepRan == hist.steps >= 1 /\ pc \in {"loop", "finished", "panic"}

\* the OnAction callbacks of the last Step
LastStepOnActions == hist.nrun - hist.nswing - hist.ntask

\* C5: a Step that does not report finished services one source only, the
\* one with the earliest due time, weapon attacks before tasks before queued
\* actions when due times are equal
C5_OneSourcePerStep ==
    LET ls   == hist.lastStep
        src  == ClaimedSource(ls.head, ls.minWeapon, ls.minTask)
        done == ~ls.fin /\ pc # "panic"
    IN  StepRan =>
          /\ src = "weapon" =>
                /\ hist.ntask = 0 /\ LastStepOnActions = 0
                /\ Last(sim.pendingActions) = ls.id
                /\ (done /\ ls.minWeapon < NeverExpires) =>
                       /\ hist.nswing >= 1
                       /\ sim.CurrentTime = Max(ls.now, ls.minWeapon)
          /\ src = "task" =>
                /\ hist.nswing = 0 /\ LastStepOnActions = 0
                /\ Last(sim.pendingActions) = ls.id
                /\ done => /\ hist.ntask >= 1
                            /\ sim.CurrentTime = Max(ls.now, ls.minTask)
          /\ src = "queue" =>
                /\ hist.nswing = 0 /\ hist.ntask = 0
                /\ ~InQueue(Cur, ls.id)
                /\ LastStepOnActions <= 1

\* a weapon attack, a task and a queued action were due at the same time;
\* the weapon swung and the other two are still waiting
C5_Witness ==
    /\ StepRan
    /\ pc = "loop"
    /\ hist.lastStep.head = hist.lastStep.minWeapon
    /\ hist.lastStep.minTask = hist.lastStep.minWeapon
    /\ hist.lastStep.minWeapon < NeverExpires
    /\ hist.nswing >= 1
    /\ sim.minTaskTime = hist.lastStep.minTask

\* C6 as stated: no action, swing or task callback runs at a clock later
\* than Duration (duration-based) or once DamageTaken has reached
\* EndFightAtHealth (health-based)
C6_NoCallbackAfterEnd == ~hist.late

\* C6 amended: a Step reports finished exactly when, on entry, the event it
\* selected is due later than endOfCombatDuration or DamageTaken exceeds
\* endOfCombatDamage (a cancelled queue head is discarded first); such a
\* Step runs no callback; in a duration-based encounter no callback runs at
\* a clock later than Duration
C6_FinishedOnEntryTest ==
    LET ls     == hist.lastStep
        endNow == \/ ls.due > sim.endOfCombatDuration
                  \/ ls.dmg > sim.endOfCombatDamage
    IN  /\ StepRan =>
            /\ ls.fin <=> (endNow /\ ~ls.cancelled)
            /\ (pc = "finished") <=> ls.fin
            /\ endNow => hist.nrun = 0 /\ sim.CurrentTime = ls.now
        /\ enc.EndFightAtHealth = 0 => ~hist.late

\* a health-based encounter ended by damage while events were still due,
\* after a callback had run with DamageTaken at or past the threshold
C6_Witness ==
    /\ pc = "finished"
    /\ enc.EndFightAtHealth > 0
    /\ hist.lastStep.dmg > sim.endOfCombatDamage
    /\ hist.lastStep.due < NeverExpires
    /\ hist.late

\* C7 as stated: from reset on, no callback observes a CurrentTime earlier
\* than the one the callback before it observed
C7_ClockNeverRewound == ~hist.rewound

\* C7 amended: from the first Step on, through Cleanup, no callback
\* observes a CurrentTime earlier than the one the callback before it
\* observed
C7_ClockNeverRewoundAfterPrePull == ~hist.rewoundPull

\* pre-pull actions ran at a negative clock after a reset callback had seen
\* zero, and later an action added with a due time in the past ran at the
\* current clock
C7_Witness ==
    /\ pc = "done"
    /\ hist.rewound
    /\ \E id \in 1..Len(actions) :
          /\ actions[id].onActionRuns = 1
          /\ actions[id].ranAt > actions[id].NextActionAt

----------------------------------------------------------------------------
(* Claims about auras *)

Logged(ev) == \E i \in 1..Len(hist.log) : hist.log[i] = ev

\* C8: an aura is active when the last call made on it was Activate and
\* inactive when it was Deactivate, and an inactive aura has no stacks
C8_IsActiveIsLastCall ==
    \A a \in 1..Len(auras) :
        /\ auras[a].lastCall = "Activate" => IsActive(Cur, a)
        /\ auras[a].lastCall = "Deactivate" => ~IsActive(Cur, a)
        /\ ~IsActive(Cur, a) => auras[a].stacks = 0

\* an aura that held two stacks was deactivated, which cleared them, while
\* another aura, re-activated after a Deactivate, is active
C8_Witness ==
    /\ pc = "aura"
    /\ \E a \in 1..Len(auras) :
          /\ auras[a].lastCall = "Deactivate"
          /\ Logged(<<"OnStacksChange", a, 2, 0>>)
          /\ Logged(<<"OnExpire", a>>)
    /\ \E b \in 1..Len(auras) :
          /\ auras[b].lastCall = "Activate"
          /\ auras[b].fadeTime > 0
          /\ auras[b].startTime >= auras[b].fadeTime

\* C9: Activate on an active aura changes nothing but the aura's
\* expiration, which becomes CurrentTime + Duration (NeverExpires for a
\* permanent aura): no hook runs, every list of every unit and every other
\* aura is as before, and so are the aura's start time and stacks
C9_ReactivateOnlyRefreshes ==
    [][\A a \in 1..Len(auras) :
          (hist'.reAct = a /\ hist'.ops = hist.ops + 1) =>
              /\ auras'[a] = [auras[a] EXCEPT
                                !.expires = IF auras[a].Duration = NeverExpires
                                            THEN NeverExpires
                                            ELSE sim.CurrentTime + auras[a].Duration,
                                !.lastCall = "Activate",
                                !.refreshedAt = sim.CurrentTime,
                                !.touched = FALSE]
              /\ \A b \in 1..Len(auras) : b # a => auras'[b] = auras[b]
              /\ \A u \in 1..Len(units) : units'[u].lists = units[u].lists
              /\ hist'.log = << >>
              /\ sim'.CurrentTime = sim.CurrentTime]_vars

\* Activate was called on an active aura with stacks that shares the
\* expiration-scan list with another aura, later than its start
C9_Witness ==
    \E a \in 1..Len(auras) :
        /\ hist.reAct = a
        /\ auras[a].stacks > 0
        /\ auras[a].startTime < sim.CurrentTime
        /\ auras[a].expires = sim.CurrentTime + auras[a].Duration
        /\ Len(units[auras[a].Unit].lists["activeAuras"]) >= 2

\* whether some aura has a attached as its dependent
Dependent(a) == \E b \in 1..Len(auras) : auras[b].sibling = a

----------------------------------------------------------------------------
(* The lifecycle specification: the aura operations with the call that was
   made on record, stack arithmetic, and Simulation.Reset at any time *)

LifeConfig ==
    <<NewAura(1, 2, 2, {"onApplyEffectsAuras"}, 2),
      NewAura(2, NeverExpires, 2, {"onSpellHitDealtAuras"}, 0),
      NewAura(1, 3, 0, Cats, 0)>>

\* the same auras, and the same with an OnReset hook on the plain buff
LifeConfigs == {LifeConfig, [LifeConfig EXCEPT ![3].OnReset = TRUE]}

InitB ==
    \E cfg \in LifeConfigs :
        \E w \in {AuraWorld(cfg)} :
            /\ pc = "life"
            /\ sim = w.sim
            /\ enc = w.enc
            /\ actions = w.actions
            /\ auras = w.auras
            /\ units = w.units
            /\ hist = w.hist

\* the handler that starts now, and the call it is
Call(w, name, a, n) ==
    [w EXCEPT !.hist.log = << >>, !.hist.ops = @ + 1, !.hist.call = <<name, a, n>>]

LifeReady == pc = "life" /\ hist.ops < MaxLifeOps

CallActivate ==
    /\ LifeReady
    /\ \E a \in 1..Len(auras) : Commit(Activate(Call(Cur, "Activate", a, 0), a))

CallDeactivate ==
    /\ LifeReady
    /\ \E a \in 1..Len(auras) : Commit(Deactivate(Call(Cur, "Deactivate", a, 0), a))

CallSetStacks ==
    /\ LifeReady
    /\ \E a \in 1..Len(auras) : \E n \in StackCalls :
          Commit(SetStacks(Call(Cur, "SetStacks", a, n), a, n))

CallAddStack ==
    /\ LifeReady
    /\ \E a \in 1..Len(auras) : Commit(AddStack(Call(Cur, "AddStack", a, 0), a))

CallRemoveStack ==
    /\ LifeReady
    /\ \E a \in 1..Len(auras) : Commit(RemoveStack(Call(Cur, "RemoveStack", a, 0), a))

CallRefresh ==
    /\ LifeReady
    /\ \E a \in 1..Len(auras) :
          /\ auras[a].active
          /\ Commit(Refresh(Call(Cur, "Refresh", a, 0), a))

\* Step moves the clock
CallAdvance ==
    /\ LifeReady
    /\ \E t \in (sim.CurrentTime + 1)..MaxLifeClock :
          Commit(advance(Call(Cur, "advance", 0, t), t, NoEffect))

\* Simulation.Reset
CallReset ==
    /\ LifeReady
    /\ LET w == reset(Call(Cur, "Reset", 0, 0))
       IN  Commit(IF w.pc = "panic" THEN w
                  ELSE [w EXCEPT !.pc = "life", !.hist.ops = hist.ops + 1,
                                 !.hist.call = <<"Reset", 0, 0>>])

NextB ==
    \/ CallActivate
    \/ CallDeactivate
    \/ CallSetStacks
    \/ CallAddStack
    \/ CallRemoveStack
    \/ CallRefresh
    \/ CallAdvance
    \/ CallReset

SpecB == InitB /\ [][NextB]_vars

----------------------------------------------------------------------------
(* Claims about stacks, lists and reset *)

\* the hook invocations of aura a in a handler's log, in order
HooksOf(log, a) ==
    SelectSeq(log, LAMBDA e : Len(e) >= 2 /\ e[2] = a)

\* C11: SetStacks(0) or Deactivate called on an active aura holding n > 0
\* stacks invokes, for that aura, OnStacksChange(n, 0) once and then
\* OnExpire once, and nothing else, and leaves the aura inactive
C11_OneDeactivation ==
    [][\A a \in 1..Len(auras) :
          ( /\ auras[a].active
            /\ auras[a].stacks > 0
            /\ hist'.ops = hist.ops + 1
            /\ hist'.call \in {<<"SetStacks", a, 0>>, <<"Deactivate", a, 0>>} ) =>
              /\ HooksOf(hist'.log, a) =
                    << <<"OnStacksChange", a, auras[a].stacks, 0>>, <<"OnExpire", a>> >>
              /\ ~auras'[a].active
              /\ auras'[a].stacks = 0]_vars

\* SetStacks(0) was called on the aura with a dependent while it held two
\* stacks: its two hooks ran in order, around those of the dependent
C11_Witness ==
    \E a \in 1..Len(auras) :
        /\ hist.call = <<"SetStacks", a, 0>>
        /\ HooksOf(hist.log, a) =
              << <<"OnStacksChange", a, 2, 0>>, <<"OnExpire", a>> >>
        /\ Len(hist.log) > 2
        /\ ~auras[a].active

\* the clamp of the claim: into [0, MaxStacks]
ClampStacks(n, maxStacks) == Max(0, Min(n, maxStacks))

\* what C12 and its amendment say of SetStacks(a, n) with target value c,
\* on an active aura with MaxStacks > 0
SetStacksTo(a, c) ==
    LET old == auras[a].stacks
    IN  IF c = old
        THEN /\ auras' = auras
             /\ units' = units
             /\ hist'.log = << >>
             /\ pc' = pc
        ELSE /\ Len(HooksOf(hist'.log, a)) >= 1
             /\ HooksOf(hist'.log, a)[1] = <<"OnStacksChange", a, old, c>>
             /\ \A i \in 2..Len(hist'.log) : hist'.log[i][1] = "OnStacksChange"
                                                   => hist'.log[i][2] # a
             /\ pc' # "panic" =>
                   /\ auras'[a].stacks = c
                   /\ auras'[a].active <=> c > 0
                   /\ HooksOf(hist'.log, a) =
                         IF c > 0 THEN << <<"OnStacksChange", a, old, c>> >>
                         ELSE << <<"OnStacksChange", a, old, c>>, <<"OnExpire", a>> >>

SetStacksCalled(a, n) ==
    /\ auras[a].active
    /\ auras[a].MaxStacks > 0
    /\ hist'.ops = hist.ops + 1
    /\ hist'.call = <<"SetStacks", a, n>>

\* C12 as stated: SetStacks(n) on an active stacking aura behaves as
\* setting the stacks to n clamped into [0, MaxStacks], for every integer n
C12_ClampsEveryInteger ==
    [][\A a \in 1..Len(auras) : \A n \in StackCalls :
          SetStacksCalled(a, n) =>
              /\ SetStacksTo(a, ClampStacks(n, auras[a].MaxStacks))
              /\ (pc' = "panic" => hist'.log # << >>)]_vars

\* C12 amended: for n >= 0 SetStacks(n) behaves as setting the stacks to
\* min(n, MaxStacks): nothing happens when that is the current count,
\* otherwise OnStacksChange(old, new) runs once and a new value of zero
\* deactivates the aura; a negative n is a fatal error that changes nothing
C12_ClampsAboveRejectsNegative ==
    [][\A a \in 1..Len(auras) : \A n \in StackCalls :
          SetStacksCalled(a, n) =>
              IF n < 0
              THEN pc' = "panic" /\ auras' = auras /\ units' = units
                                 /\ hist'.log = << >>
              ELSE /\ SetStacksTo(a, Min(n, auras[a].MaxStacks))
                   /\ (pc' = "panic" => hist'.log # << >>)]_vars

\* SetStacks(3) on an aura of MaxStacks 2 holding one stack left it with two
C12_Witness ==
    \E a \in 1..Len(auras) :
        /\ hist.call = <<"SetStacks", a, 3>>
        /\ auras[a].MaxStacks = 2
        /\ auras[a].stacks = 2
        /\ HooksOf(hist.log, a) = << <<"OnStacksChange", a, 1, 2>> >>

\* C13: in every state, and in every state a hook or callback observed,
\* every aura has 0 <= stacks <= MaxStacks, and stacks > 0 only when active
C13_StacksInRange == StacksInRange(Cur) /\ ~hist.hookBad

\* Deactivate was called on an aura holding two stacks: its hooks and those
\* of its dependent ran after it had been marked inactive
C13_Witness ==
    \E a \in 1..Len(auras) :
        /\ hist.call = <<"Deactivate", a, 0>>
        /\ HooksOf(hist.log, a) =
              << <<"OnStacksChange", a, 2, 0>>, <<"OnExpire", a>> >>
        /\ Len(hist.log) > 2
        /\ ~hist.hookBad

\* whether aura a belongs in list c when it is active
BelongsIn(a, c) ==
    IF c = "activeAuras" THEN auras[a].Duration # NeverExpires
    ELSE c \in auras[a].handlers

\* C14: unless a fatal error has stopped the program, every list of every
\* unit holds exactly the unit's active auras that belong in it, each once,
\* and an aura's stored index is its position in the list (from 0), or
\* Inactive when it is not listed
C14_ListsMatchActiveAuras ==
    pc # "panic" =>
        \A u \in 1..Len(units) : \A c \in ListNames :
            LET L == units[u].lists[c]
            IN  /\ \A i, j \in 1..Len(L) : L[i] = L[j] => i = j
                /\ \A i \in 1..Len(L) : auras[L[i]].index[c] = i - 1
                /\ \A a \in 1..Len(auras) :
                      auras[a].Unit = u =>
                          IF auras[a].active /\ BelongsIn(a, c)
                          THEN \E i \in 1..Len(L) : L[i] = a
                          ELSE /\ \A i \in 1..Len(L) : L[i] # a
                               /\ auras[a].index[c] = Inactive

\* the earlier of two active auras of a unit was deactivated, and the later
\* one took its place at the front of the expiration-scan list
C14_Witness ==
    \E a, b \in 1..Len(auras) :
        /\ a # b
        /\ auras[a].Unit = auras[b].Unit
        /\ hist.call = <<"Deactivate", a, 0>>
        /\ HooksOf(hist.log, a) = << <<"OnExpire", a>> >>
        /\ auras[b].active
        /\ auras[a].startTime < auras[b].startTime
        /\ units[auras[b].Unit].lists["activeAuras"] = <<b>>
        /\ auras[b].index["activeAuras"] = 0

-----------------------------------------------------------------------------
(* Claims about the execute-phase controller *)

\* the rungs in the order nextExecutePhase visits them, from the value reset
\* stores before its first call
Ladder == <<0, 100, 90, 45, 35, 25, 20>>

\* C15: within one iteration the execute phase walks down the ladder 100, 90,
\* 45, 35, 25, 20 one rung at a time, never repeating or increasing, and no
\* transition is attempted once phase 20 has been reached: every call of
\* nextExecutePhase of the iteration was made from the rung before the one it
\* moved to, none of them from 20
C15_LadderWalk ==
    /\ Len(hist.walk) < Len(Ladder)
    /\ \A i \in 1..Len(hist.walk) : hist.walk[i] = Ladder[i]
    /\ hist.walk # << >> => sim.executePhase = Ladder[Len(hist.walk) + 1]

\* a health-based encounter with nothing left to do but the sentinel: Step
\* advanced the clock to NeverExpires and the threshold loop went on from 20
C15_Witness ==
    /\ pc = "panic"
    /\ enc.EndFightAtHealth > 0
    /\ sim.CurrentTime = NeverExpires
    /\ hist.walk = Ladder
    /\ sim.executePhase = 20

-----------------------------------------------------------------------------
(* The phase specification: Simulation.advance called on a freshly reset
   simulation with execute-phase callbacks registered, the encounter taking
   damage between the calls *)

PhaseEncounters ==
    {[EndFightAtHealth |-> h, DamageTaken |-> 0, BaseDuration |-> d,
      prepullActions |-> << >>, resetEffects |-> 1, phaseCallbacks |-> n,
      weapons |-> 0, tasks |-> 0, maxActions |-> 0] :
        h \in {0, PhaseHealth}, d \in Durations, n \in {1, 2}}

\* the state sim.reset() leaves
PhaseWorld(e) ==
    reset([pc |-> "new", sim |-> ZeroSim, enc |-> e, actions |-> << >>,
           auras |-> << >>, units |-> << >>, hist |-> ZeroHist])

InitP ==
    \E e \in PhaseEncounters :
        \E w \in {PhaseWorld(e)} :
            /\ pc = "phase"
            /\ sim = w.sim
            /\ enc = w.enc
            /\ actions = w.actions
            /\ auras = w.auras
            /\ units = w.units
            /\ hist = w.hist

PhaseReady == pc = "phase" /\ hist.ops < MaxPhaseOps

\* a callback of the event loop deals damage: Encounter.DamageTaken grows
TakeDamage ==
    /\ PhaseReady
    /\ enc.EndFightAtHealth > 0
    /\ \E d \in DamagePoints :
        /\ d > enc.DamageTaken
        /\ Commit([Cur EXCEPT !.enc.DamageTaken = d, !.hist.ops = @ + 1])

\* the times Step may pass to advance: a later event time, or NeverExpires
\* when a damage-based encounter has nothing left but the sentinel
AdvanceTimes ==
    (sim.CurrentTime + 1 .. MaxPhaseClock)
    \cup (IF enc.EndFightAtHealth > 0 THEN {NeverExpires} ELSE {})

\* sim.advance(t); hist.call keeps the time and the damage it ended with
AdvanceTo ==
    /\ PhaseReady
    /\ \E t \in AdvanceTimes : \E d \in PhaseHits :
        /\ d > 0 => enc.EndFightAtHealth > 0
        /\ LET w == advance(Call(Cur, "advance", t, 0), t,
                            [dmg |-> d, cancel |-> 0, add |-> NoAdd])
           IN  Commit([w EXCEPT !.hist.call = <<"advance", t, w.enc.DamageTaken>>,
                                !.pc = IF w.pc = "panic" THEN "panic" ELSE "phase"])

NextP == TakeDamage \/ AdvanceTo

SpecP == InitP /\ [][NextP]_vars

\* the position of a phase value on the ladder
RungOf(ph) == CHOOSE i \in 1..Len(Ladder) : Ladder[i] = ph

\* the threshold that ends rung i is reached at time t with damage d
Reached(i, t, d) ==
    IF enc.EndFightAtHealth > 0
    THEN d >= ((100 - Ladder[i + 1]) * enc.EndFightAtHealth) \div 100
    ELSE t >= ((100 - Ladder[i + 1]) * sim.Duration) \div 100

\* the rungs, from rung cur on, whose thresholds time t and damage d cross
Crossed(cur, t, d) ==
    {i \in cur..(Len(Ladder) - 1) : \A j \in cur..i : Reached(j, t, d)}

\* a step that is one call of advance which returned
PhaseAdvanced ==
    pc = "phase" /\ pc' = "phase" /\ sim'.CurrentTime > sim.CurrentTime

\* the advance made as many transitions as there were thresholds crossed,
\* called every observer once per transition with the new phase, highest
\* phase first, and left no threshold crossed
AdvanceCrossesAll ==
    LET cur == RungOf(sim.executePhase)
        k   == Cardinality(Crossed(cur, sim'.CurrentTime, enc'.DamageTaken))
        n   == sim.executePhaseCallbacks
    IN  /\ Len(hist'.walk) = Len(hist.walk) + k
        /\ sim'.executePhase = Ladder[cur + k]
        /\ Len(hist'.log) = k * n
        /\ \A m \in 1..(k * n) :
             hist'.log[m] = <<"PhaseCallback", Ladder[cur + ((m - 1) \div n) + 1]>>
        /\ sim'.CurrentTime < sim'.nextExecuteDuration
        /\ enc'.DamageTaken < sim'.nextExecuteDamage

\* the advance before this one ended with damage a, this one began and ended
\* with damage b, in the encounter with end-health PhaseHealth
DamageJump(a, b) ==
    /\ enc.EndFightAtHealth = PhaseHealth
    /\ hist.call[1] = "advance" /\ hist.call[3] = a
    /\ enc.DamageTaken = b /\ enc'.DamageTaken = b

\* C16 as stated: an advance that crosses k thresholds makes exactly k
\* transitions, calling every registered observer once for each with the new
\* phase, in descending order, and leaves no threshold crossed; and with
\* end-health 1000 the advance after damage went from 880 to 1000 makes two
C16_CrossesAllThresholds ==
    [][PhaseAdvanced =>
         /\ AdvanceCrossesAll
         /\ DamageJump(880, 1000) => Len(hist'.walk) = Len(hist.walk) + 2]_vars

\* C16, amended: the same, but with end-health 1000 the thresholds lie at
\* damage 100, 550, 650, 750 and 800, so the advance after damage went from
\* 880 to 1000 makes no transition, and the one after it went from 500 to 700
\* makes two, calling the observers for 45 and then for 35
C16_CrossesAllThresholdsFrom500 ==
    [][PhaseAdvanced =>
         /\ AdvanceCrossesAll
         /\ DamageJump(880, 1000) =>
              /\ hist'.walk = hist.walk
              /\ hist'.log = << >>
         /\ DamageJump(500, 700) =>
              /\ Len(hist'.walk) = Len(hist.walk) + 2
              /\ \A m \in 1..Len(hist'.log) :
                   hist'.log[m][2] = (IF m <= sim.executePhaseCallbacks
                                      THEN 45 ELSE 35)]_vars

\* one advance of the damage-based encounter, made with damage 700 and two
\* observers registered, moved the phase from 90 over 45 to 35 and called
\* both observers for each
C16_Witness ==
    /\ pc = "phase"
    /\ enc.EndFightAtHealth = PhaseHealth
    /\ hist.call[1] = "advance" /\ hist.call[3] = 700
    /\ sim.executePhase = 35
    /\ hist.log = <<<<"PhaseCallback", 45>>, <<"PhaseCallback", 45>>,
                    <<"PhaseCallback", 35>>, <<"PhaseCallback", 35>>>>

-----------------------------------------------------------------------------
(* Randomness manager.  A stream is [seed, state]; a float64 in [0, 1) is
   its numerator over RandModulus. *)

\* NewSplitMix(seed): a stream that starts from the seed
NewSplitMix(seed) == [seed |-> seed, state |-> seed % RandModulus]

\* Rand.Seed: the stream starts again from the seed
Seed(r, seed) == NewSplitMix(seed)

\* Rand.GetSeed
GetSeed(r) == r.seed

\* the stream after one draw, and the value that draw returns
NextState(r) == [r EXCEPT !.state = (@ + RandGamma) % RandModulus]

NextFloat64(r) == (5 * NextState(r).state + 1) % RandModulus

\* hash(label + strconv.FormatInt(rseed, 16))
hash(label, rseed) == (IF label = "a" THEN 1 ELSE 4) + 3 * rseed

\* func makeTestRandSeed(rseed, label)
makeTestRandSeed(rseed, label) == hash(label, rseed)

\* labelRand that hands out the root stream whatever the mode
labelRand_AlwaysRoot(s, label) == [sim |-> s, key |-> "rand"]

\* Simulation.labelRand: the simulation, with the label's stream created if
\* it was missing, and which stream is handed out
labelRand(s, label) ==
    IF ~s.isTest THEN [sim |-> s, key |-> "rand"]
    ELSE IF label \in DOMAIN s.testRands THEN [sim |-> s, key |-> label]
    ELSE [sim |-> [s EXCEPT !.testRands =
                      @ @@ (label :> NewSplitMix(
                                        makeTestRandSeed(GetSeed(s.rand), label)))],
          key |-> label]

\* Simulation.RandomFloat(label): the simulation after the draw and the value
\* (drew and draw put on record whether a value was drawn, and which)
RandomFloat(s, label) ==
    LET lr == labelRand(s, label)
        r  == IF lr.key = "rand" THEN lr.sim.rand ELSE lr.sim.testRands[label]
    IN  [sim   |-> IF lr.key = "rand"
                   THEN [lr.sim EXCEPT !.rand = NextState(r)]
                   ELSE [lr.sim EXCEPT !.testRands[label] = NextState(r)],
         value |-> NextFloat64(r),
         drew  |-> TRUE,
         draw  |-> NextFloat64(r)]

\* reseedRands that leaves the label streams as they are
reseedRands_RootOnly(s, i) ==
    [s EXCEPT !.rand = Seed(s.rand, s.RandomSeed + i)]

\* Simulation.reseedRands(i)
reseedRands(s, i) ==
    LET rseed == s.RandomSeed + i
        s1    == [s EXCEPT !.rand = Seed(s.rand, rseed)]
    IN  IF s.isTest
        THEN [s1 EXCEPT !.testRands =
                 [label \in DOMAIN s.testRands |->
                     Seed(s.testRands[label], makeTestRandSeed(rseed, label))]]
        ELSE s1

\* Proc that also answers true when the draw equals p
Proc_Inclusive(s, p, label) ==
    IF p >= RandModulus THEN [sim |-> s, value |-> TRUE, drew |-> FALSE, draw |-> 0]
    ELSE IF p <= 0 THEN [sim |-> s, value |-> FALSE, drew |-> FALSE, draw |-> 0]
    ELSE LET d == RandomFloat(s, label)
         IN  [sim |-> d.sim, value |-> d.value <= p, drew |-> TRUE, draw |-> d.value]

\* Proc that draws before it looks at p
Proc_DrawsFirst(s, p, label) ==
    LET d == RandomFloat(s, label)
    IN  IF p >= RandModulus THEN [sim |-> d.sim, value |-> TRUE, drew |-> FALSE, draw |-> 0]
        ELSE IF p <= 0 THEN [sim |-> d.sim, value |-> FALSE, drew |-> FALSE, draw |-> 0]
        ELSE [sim |-> d.sim, value |-> d.value < p, drew |-> TRUE, draw |-> d.value]

\* Simulation.Proc(p, label)
Proc(s, p, label) ==
    IF p >= RandModulus THEN [sim |-> s, value |-> TRUE, drew |-> FALSE, draw |-> 0]
    ELSE IF p <= 0 THEN [sim |-> s, value |-> FALSE, drew |-> FALSE, draw |-> 0]
    ELSE LET d == RandomFloat(s, label)
         IN  [sim |-> d.sim, value |-> d.value < p, drew |-> TRUE, draw |-> d.value]

-----------------------------------------------------------------------------
(* The randomness specification: two simulations built from the same
   options, sim[1] and sim[2], each reseeded and drawn from on its own.
   hist.out[k] lists the draws of simulation k since it was last reseeded,
   hist.seeded[k] is the iteration index it was reseeded for, hist.call the
   call of Proc when the last call was one. *)

\* newSimWithEnv: the randomness fields of a simulation
NewRandSim(seed, rseed, test) ==
    [RandomSeed |-> seed, rand |-> NewSplitMix(rseed), isTest |-> test,
     testRands |-> [label \in {} |-> NewSplitMix(0)]]

InitR ==
    /\ pc = "rand"
    /\ \E seed \in RandomSeeds, test \in BOOLEAN, t1, t2 \in TimeSeeds :
         /\ t1 <= t2
         /\ sim = <<NewRandSim(seed, IF seed = 0 THEN t1 ELSE seed, test),
                    NewRandSim(seed, IF seed = 0 THEN t2 ELSE seed, test)>>
    /\ enc = [EndFightAtHealth |-> 0]
    /\ actions = << >>
    /\ auras = << >>
    /\ units = << >>
    /\ hist = [ops |-> 0, out |-> <<<< >>, << >>>>, seeded |-> <<0, 0>>,
               call |-> <<"none">>]

RandReady == pc = "rand" /\ hist.ops < MaxRandOps

\* the record of one call on simulation k that answered d
Drawn(k, d, label, call) ==
    /\ sim' = [sim EXCEPT ![k] = d.sim]
    /\ hist' = [hist EXCEPT !.ops = @ + 1,
                            !.out[k] = IF d.drew THEN Append(@, <<label, d.draw>>)
                                       ELSE @,
                            !.call = call]
    /\ UNCHANGED <<pc, enc, actions, auras, units>>

\* the driver reseeds simulation k before iteration i
DoReseed ==
    /\ RandReady
    /\ \E k \in 1..2, i \in Iterations :
        /\ sim' = [sim EXCEPT ![k] = reseedRands(sim[k], i)]
        /\ hist' = [hist EXCEPT !.ops = @ + 1, !.out[k] = << >>,
                                !.seeded[k] = i, !.call = <<"none">>]
        /\ UNCHANGED <<pc, enc, actions, auras, units>>

\* some code of simulation k calls RandomFloat(label)
DoRandomFloat ==
    /\ RandReady
    /\ \E k \in 1..2, label \in Labels :
        /\ Len(hist.out[k]) < MaxDraws
        /\ Drawn(k, RandomFloat(sim[k], label), label, <<"none">>)

\* some code of simulation k calls Proc(p, label)
DoProc ==
    /\ RandReady
    /\ \E k \in 1..2, label \in Labels, p \in Probabilities :
        /\ Len(hist.out[k]) < MaxDraws
        /\ LET d == Proc(sim[k], p, label)
           IN  Drawn(k, d, label, <<"Proc", k, label, p, d.value>>)

NextR == DoReseed \/ DoRandomFloat \/ DoProc

SpecR == InitR /\ [][NextR]_vars

-----------------------------------------------------------------------------
(* Claims about the randomness manager *)

\* both simulations were last reseeded for the same iteration index
SameSeeded == hist.seeded[1] = hist.seeded[2] /\ hist.seeded[1] # 0

\* the labels of a list of draws, and the values drawn for one label
LabelsOf(o) == [i \in 1..Len(o) |-> o[i][1]]

ValuesFor(o, label) ==
    LET mine == SelectSeq(o, LAMBDA e : e[1] = label)
    IN  [i \in 1..Len(mine) |-> mine[i][2]]

IsPrefix(s, t) == Len(s) <= Len(t) /\ s = SubSeq(t, 1, Len(s))

\* C17: two simulations with the same base seed, reseeded for the same
\* iteration index, that then make the same labelled draw requests draw the
\* same values, in plain mode and in test mode
C17_SameSeedSameDraws ==
    SameSeeded =>
        \A n \in 0..Min(Len(hist.out[1]), Len(hist.out[2])) :
            SubSeq(LabelsOf(hist.out[1]), 1, n) = SubSeq(LabelsOf(hist.out[2]), 1, n)
                => SubSeq(hist.out[1], 1, n) = SubSeq(hist.out[2], 1, n)

\* in test mode, after reseeding for the same iteration, one simulation drew
\* for two labels and the other made the first of these draws, the label
\* streams of the two simulations having been created at different times
C17_Witness ==
    /\ SameSeeded
    /\ sim[1].isTest
    /\ Len(hist.out[1]) = 2
    /\ hist.out[1][1][1] # hist.out[1][2][1]
    /\ Len(hist.out[2]) = 1
    /\ hist.out[2][1] = hist.out[1][1]

\* C18: in test mode the n-th value drawn for a label in an iteration depends
\* only on the iteration seed, the label and n: whatever the two simulations
\* drew for other labels, and whether the label's stream was created in this
\* iteration or re-seeded, the values one drew for the label are the first
\* of those the other drew for it
C18_LabelStreamsIndependent ==
    (SameSeeded /\ sim[1].isTest) =>
        \A label \in Labels :
            \/ IsPrefix(ValuesFor(hist.out[1], label), ValuesFor(hist.out[2], label))
            \/ IsPrefix(ValuesFor(hist.out[2], label), ValuesFor(hist.out[1], label))

\* simulation 1 drew for the other label first and simulation 2 did not, and
\* both then drew for this label
C18_Witness ==
    /\ SameSeeded
    /\ sim[1].isTest
    /\ \E label \in Labels :
        /\ Len(hist.out[1]) = 2
        /\ hist.out[1][1][1] # label
        /\ hist.out[1][2][1] = label
        /\ Len(hist.out[2]) = 1
        /\ hist.out[2][1][1] = label
        /\ hist.out[2][1][2] = hist.out[1][2][2]

\* a step that is the call Proc(p, label) on simulation k
ProcCalled(k, p, label) ==
    /\ hist'.ops = hist.ops + 1
    /\ Len(hist'.call) = 5
    /\ hist'.call[2] = k /\ hist'.call[3] = label /\ hist'.call[4] = p

\* C19: Proc(p, label) answers false for p <= 0 and true for p >= 1 whatever
\* the streams hold, and for 0 < p < 1 answers true exactly when the next
\* draw for the label is below p
C19_ProcThreshold ==
    [][\A k \in 1..2, p \in Probabilities, label \in Labels :
         ProcCalled(k, p, label) =>
             hist'.call[5] = (IF p <= 0 THEN FALSE
                              ELSE IF p >= RandModulus THEN TRUE
                              ELSE RandomFloat(sim[k], label).value < p)]_vars

\* Proc answered false to a probability strictly between 0 and 1 because
\* the draw it made was not below it
C19_Witness ==
    /\ Len(hist.call) = 5
    /\ hist.call[4] > 0 /\ hist.call[4] < RandModulus
    /\ hist.call[5] = FALSE
    /\ hist.out[hist.call[2]] # << >>
    /\ Last(hist.out[hist.call[2]])[2] >= hist.call[4]

-----------------------------------------------------------------------------
(* Claims about the per-iteration reset *)

\* a step that is one call of Simulation.Reset
ResetCalled == hist'.ops = hist.ops + 1 /\ hist'.call = <<"Reset", 0, 0>>

\* some aura is active or has stacks
AuraLeftOver == \E a \in 1..Len(auras) : auras[a].active \/ auras[a].stacks # 0

\* the reset went through and left no aura in any list, every cached
\* minimum at NeverExpires and every aura's metrics clear
ResetLeftClean ==
    /\ pc' # "panic"
    /\ \A u \in 1..Len(units) :
        /\ \A c \in ListNames : units'[u].lists[c] = << >>
        /\ units'[u].minExpires = NeverExpires
    /\ \A a \in 1..Len(auras) : ~auras'[a].counted

-----------------------------------------------------------------------------
(* Claims about the driver: Cleanup, the end of the event loop, the caches *)

\* a step that is the call of Simulation.Cleanup
CleanupCalled == pc = "finished" /\ pc' = "done"

\* the actions of the queue that have a CleanUp hook, in queue order
HooksDue ==
    SelectSeq(sim.pendingActions,
              LAMBDA id : id # Sentinel /\ actions[id].CleanUp)

\* C21: when the event loop has finished, Cleanup calls the CleanUp hook of
\* every action still in the queue that has one, once each, before the
\* metrics are finalized, and runs the OnAction of none of them
C21_CleanupRunsQueuedHooks ==
    [][CleanupCalled =>
         /\ Len(hist'.log) = Len(HooksDue) + 1
         /\ \A i \in 1..Len(HooksDue) : hist'.log[i] = <<"CleanUp", HooksDue[i]>>
         /\ hist'.log[Len(HooksDue) + 1] = <<"doneIteration">>
         /\ \A id \in 1..Len(actions) :
              /\ actions'[id].onActionRuns = actions[id].onActionRuns
              /\ InQueue(Cur, id) => actions'[id].onActionRuns = 0
              /\ actions'[id].cleanUpRuns = actions[id].cleanUpRuns +
                    (IF InQueue(Cur, id) /\ actions[id].CleanUp THEN 1 ELSE 0)]_vars

\* Cleanup found two actions past the end of the fight in the queue, called
\* the hook of each and ran neither
C21_Witness ==
    /\ pc = "done"
    /\ Len(hist.log) >= 3
    /\ \A i \in 1..2 :
        /\ hist.log[i][1] = "CleanUp"
        /\ actions[hist.log[i][2]].cleanUpRuns = 1
        /\ actions[hist.log[i][2]].onActionRuns = 0
        /\ ~actions[hist.log[i][2]].cancelled

-----------------------------------------------------------------------------
(* The run specification: RunSim from the construction of the simulation to
   its result.  pc names the call about to be made: "construct" (NewSim),
   "reset", "prepull", "loop", "cleanup" (the calls of runOnce), "top" (the
   head of the iteration loop of run), then "returned" or, when a panic
   leaves RunSim, "crashed".  sim.i is the index of the iteration, sim.Abort
   the abort signal.  hist: started and completed count iterations, reports
   lists what went to the progress channel, result is what RunSim returned,
   raised the defect that stopped it, abortAt where the run was when the
   abort signal was triggered. *)

\* newSimWithEnv, the fields the run uses; clock is time.Now().UnixNano()
RunSimulation(opts, clock, progress) ==
    [Options |-> opts, RandomSeed |-> opts.RandomSeed,
     rand |-> NewSplitMix(IF opts.RandomSeed = 0 THEN clock ELSE opts.RandomSeed),
     isTest |-> opts.IsTest \/ opts.UseLabeledRands,
     testRands |-> [label \in {} |-> NewSplitMix(0)],
     progress |-> progress, i |-> 0, Abort |-> FALSE]

RunOptions ==
    [RandomSeed : RandomSeeds, IsTest : BOOLEAN, UseLabeledRands : BOOLEAN,
     Iterations : {1, MaxIterations}]

InitD ==
    /\ pc = "construct"
    /\ \E opts \in RunOptions, clock \in TimeSeeds, progress \in BOOLEAN :
         sim = RunSimulation(opts, clock, progress)
    /\ enc = [EndFightAtHealth |-> 0]
    /\ actions = << >>
    /\ auras = << >>
    /\ units = << >>
    /\ hist = [started |-> 0, completed |-> 0, reports |-> << >>,
               result |-> "none", draws |-> 0, raised |-> "none",
               abortAt |-> "none", closed |-> 0]

\* the calls of runOnce, in order
IterStages == <<"reset", "prepull", "loop", "cleanup">>

InIteration == \E k \in 1..Len(IterStages) : pc = IterStages[k]

\* close(progress) in the deferred function of runSim
Close(w) == [w EXCEPT !.hist.closed = IF w.sim.progress THEN @ + 1 ELSE @]

\* the deferred function of runSim that recovers whatever the options say
Recover_Always(w, defect) ==
    Close([w EXCEPT !.pc = "returned",
                    !.hist.result = "Error",
                    !.hist.raised = defect,
                    !.hist.reports = IF w.sim.progress THEN Append(@, "Error") ELSE @])

\* runSim: a panic raised below it meets the deferred recover, which is
\* installed unless Options.IsTest
Recover(w, defect) ==
    IF ~w.sim.Options.IsTest
    THEN Close([w EXCEPT !.pc = "returned",
                         !.hist.result = "Error",
                         !.hist.raised = defect,
                         !.hist.reports = IF w.sim.progress THEN Append(@, "Error") ELSE @])
    ELSE [w EXCEPT !.pc = "crashed", !.hist.raised = defect]

\* the deferred function of runSim that closes the channel only after a panic
Return_ClosesAfterPanicOnly(w) == w

\* runSim returns without a panic: the deferred function, installed unless
\* Options.IsTest, finds nothing to recover and closes the channel
Return(w) ==
    IF w.pc = "returned" /\ ~w.sim.Options.IsTest THEN Close(w) ELSE w

\* the head of the loop of run that never looks at the abort signal
runTop_NoAbortCheck(w, report) ==
    IF w.sim.i < w.sim.Options.Iterations
    THEN [w EXCEPT !.pc = "reset",
                   !.sim = reseedRands(w.sim, w.sim.i),
                   !.hist.started = @ + 1,
                   !.hist.reports = IF report /\ w.sim.progress
                                    THEN Append(@, "Progress") ELSE @]
    ELSE [w EXCEPT !.pc = "returned", !.hist.result = "Done",
                   !.hist.reports = IF w.sim.progress THEN Append(@, "Done") ELSE @]

\* run: the head of the loop for iteration sim.i; report says whether the
\* last progress report is 100 ms old
runTop(w, report) ==
    IF w.sim.i < w.sim.Options.Iterations
    THEN IF w.sim.Abort
         THEN [w EXCEPT !.pc = "returned", !.hist.result = "Aborted",
                        !.hist.reports = IF w.sim.progress
                                         THEN Append(@, "Aborted") ELSE @]
         ELSE [w EXCEPT !.pc = "reset",
                        !.sim = reseedRands(w.sim, w.sim.i),
                        !.hist.started = @ + 1,
                        !.hist.reports = IF report /\ w.sim.progress
                                         THEN Append(@, "Progress") ELSE @]
    ELSE [w EXCEPT !.pc = "returned", !.hist.result = "Done",
                   !.hist.reports = IF w.sim.progress THEN Append(@, "Done") ELSE @]

\* NewSim returns and runSim announces the pre-simulations
DoConstruct ==
    /\ pc = "construct"
    /\ Commit([Cur EXCEPT !.pc = "presim",
                          !.hist.reports = IF sim.progress
                                           THEN Append(@, "PresimRunning") ELSE @])

\* runSim: sim.runPresims returns, with an error result or without; after
\* an error runSim reports it and returns, otherwise it reports the end of
\* the pre-simulations and run makes its first call of runOnce
runPresims(w, failed) ==
    IF failed
    THEN [w EXCEPT !.pc = "returned", !.hist.result = "PresimError",
                   !.hist.reports = IF w.sim.progress
                                    THEN Append(@, "PresimError") ELSE @]
    ELSE [w EXCEPT !.pc = "reset", !.hist.started = @ + 1,
                   !.hist.reports = IF w.sim.progress
                                    THEN Append(@, "PresimDone") ELSE @]

DoPresim ==
    /\ pc = "presim"
    /\ \E failed \in BOOLEAN : Commit(Return(runPresims(Cur, failed)))

\* one call of runOnce returns; after Cleanup the loop index moves on
DoStage ==
    /\ InIteration
    /\ \E k \in 1..Len(IterStages) :
        /\ pc = IterStages[k]
        /\ IF k < Len(IterStages)
           THEN Commit([Cur EXCEPT !.pc = IterStages[k + 1]])
           ELSE Commit([Cur EXCEPT !.pc = "top", !.sim.i = @ + 1,
                                   !.hist.completed = @ + 1])

\* code of the iteration draws a random number
DoDraw ==
    /\ InIteration
    /\ hist.draws < MaxRunDraws
    /\ \E label \in Labels :
         Commit([Cur EXCEPT !.sim = RandomFloat(sim, label).sim,
                            !.hist.draws = @ + 1])

\* code of the construction or of the iteration panics
DoPanic ==
    /\ pc \in {"construct", "presim"} \/ InIteration
    /\ \E defect \in Defects : Commit(Recover(Cur, defect))

\* somebody triggers the abort signal
DoAbort ==
    /\ pc \notin {"returned", "crashed"}
    /\ ~sim.Abort
    /\ Commit([Cur EXCEPT !.sim.Abort = TRUE, !.hist.abortAt = pc])

DoTop ==
    /\ pc = "top"
    /\ \E report \in BOOLEAN : Commit(Return(runTop(Cur, report)))

NextD == DoConstruct \/ DoPresim \/ DoStage \/ DoDraw \/ DoPanic \/ DoAbort \/ DoTop

SpecD == InitD /\ [][NextD]_vars

-----------------------------------------------------------------------------
(* Claims about the run *)

\* the call of runOnce after the one pc names
StageAfter(st) ==
    IF st = "cleanup" THEN "top"
    ELSE IterStages[(CHOOSE k \in 1..Len(IterStages) : IterStages[k] = st) + 1]

\* C22: the abort signal is polled only between iterations: a started
\* iteration goes through reset, PrePull, the event loop and Cleanup whatever
\* the signal is, and when the signal is found set at the head of the loop
\* with an iteration still to run, none is started, the run returns Aborted
\* and reports it through the progress callback if there is one
C22_AbortBetweenIterations ==
    [][/\ (InIteration /\ pc' # pc /\ hist'.raised = "none") => pc' = StageAfter(pc)
       /\ (hist'.result = "Aborted" /\ hist.result = "none") =>
            pc = "top" /\ hist.started = hist.completed
       /\ (pc = "top" /\ pc' # pc /\ sim.Abort /\ sim.i < sim.Options.Iterations) =>
            /\ pc' = "returned"
            /\ hist'.result = "Aborted"
            /\ hist'.started = hist.started
            /\ sim.progress => /\ hist'.reports # << >>
                               /\ Last(hist'.reports) = "Aborted"]_vars

\* the signal was triggered during the event loop of the first of three
\* iterations; the iteration was completed, no other was started, and the
\* run returned Aborted and reported it
C22_Witness ==
    /\ pc = "returned"
    /\ hist.result = "Aborted"
    /\ hist.abortAt = "loop"
    /\ sim.Options.Iterations = MaxIterations
    /\ hist.started = 1 /\ hist.completed = 1
    /\ hist.reports # << >> /\ Last(hist.reports) = "Aborted"

\* a step in which code below runSim raises a fatal defect
DefectRaised == hist.raised = "none" /\ hist'.raised \in Defects

\* C23 as stated: every fatal defect raised while a run is in progress ends
\* the run with a result whose Error is set and never leaves RunSim as a
\* panic, whatever the simulation options
C23_DefectsReturnError ==
    [][DefectRaised => pc' = "returned" /\ hist'.result = "Error"]_vars

\* C23, amended: so it is when Options.IsTest is not set, and the result
\* also goes to the progress channel when there is one; when IsTest is set
\* the panic leaves RunSim and no result is returned
C23_DefectsReturnErrorUnlessTest ==
    [][DefectRaised =>
         IF sim.Options.IsTest
         THEN pc' = "crashed" /\ hist'.result = "none" /\ hist'.reports = hist.reports
         ELSE /\ pc' = "returned"
              /\ hist'.result = "Error"
              /\ hist'.reports = IF sim.progress THEN Append(hist.reports, "Error")
                                 ELSE hist.reports]_vars

\* the reset of the second iteration found an aura active: the run ended
\* there with an error result, which also went to the progress channel
C23_Witness ==
    /\ pc = "returned"
    /\ hist.result = "Error"
    /\ hist.raised = "active at reset"
    /\ hist.started = 2 /\ hist.completed = 1
    /\ ~sim.Options.IsTest
    /\ hist.reports # << >> /\ Last(hist.reports) = "Error"

\* the streams of the simulation are as seeding for iteration sim.i makes them
SeededFor(seed) ==
    /\ sim.rand = NewSplitMix(seed)
    /\ sim.isTest =>
         \A label \in DOMAIN sim.testRands :
             sim.testRands[label] = NewSplitMix(makeTestRandSeed(seed, label))

\* an iteration starts: the run loop hands over to runOnce
IterationStarts == pc # "reset" /\ pc' = "reset"

\* C27 as stated: at the start of every iteration i, the first included and
\* base seed 0 included, the root stream is as seeded with base_seed + i
\* and, in labelled mode, every label stream as seeded with
\* hash(label, base_seed + i)
C27_SeededEveryIteration ==
    [][IterationStarts => SeededFor(sim.RandomSeed + sim.i)']_vars

\* the third iteration of a labelled run with base seed 0 is about to start,
\* both label streams having been drawn from in earlier iterations
C27_Witness ==
    /\ pc = "reset"
    /\ sim.i = 2
    /\ sim.RandomSeed = 0
    /\ sim.isTest
    /\ DOMAIN sim.testRands = Labels
    /\ hist.draws = MaxRunDraws

----------------------------------------------------------------------------
(* The exclusive-effect specification: three auras of one unit compete for
   the unit's exclusive-effect categories *)

\* an exclusive effect of an aura
Effect(category, priority) == [Category |-> category, Priority |-> priority]

\* aura 1 stacks and has an effect in each category; aura 2 is stronger than aura 1
\* in c2; aura 3 is weaker than aura 1 in c3 and in c1
ExclusiveConfig ==
    <<[NewAura(1, 2, 2, {"onApplyEffectsAuras"}, 0) EXCEPT
          !.ExclusiveEffects = <<Effect("c1", 1), Effect("c2", 1), Effect("c3", 1)>>],
      [NewAura(1, NeverExpires, 0, {"onSpellHitDealtAuras"}, 0) EXCEPT
          !.ExclusiveEffects = <<Effect("c2", 2)>>],
      [NewAura(1, 3, 0, Cats, 0) EXCEPT
          !.ExclusiveEffects = <<Effect("c3", 0), Effect("c1", 0)>>]>>

InitE ==
    \E w \in {AuraWorld(ExclusiveConfig)} :
        /\ pc = "life"
        /\ sim = w.sim
        /\ enc = w.enc
        /\ actions = w.actions
        /\ auras = w.auras
        /\ units = w.units
        /\ hist = w.hist

NextE ==
    \/ CallActivate
    \/ CallDeactivate
    \/ CallAddStack
    \/ CallRefresh
    \/ CallAdvance
    \/ CallReset

SpecE == InitE /\ [][NextE]_vars

----------------------------------------------------------------------------
(* Claims about exclusive effects, the registry and illegal stack counts *)

\* the categories aura a has an event of the given kind for in the log
CategoriesOf(log, kind, a) ==
    {c \in Categories : \E k \in 1..Len(log) : log[k] = <<kind, a, c>>}

\* the position of the refusal of aura a in the log
BlockedAt(log, a) ==
    CHOOSE k \in 1..Len(log) : log[k][1] = "blocked" /\ log[k][2] = a

\* this step is Activate called on the inactive aura a, and an exclusive
\* effect of a refuses
ActivateRefused(a) ==
    /\ hist'.ops = hist.ops + 1
    /\ hist'.call = <<"Activate", a, 0>>
    /\ ~auras[a].active
    /\ CategoriesOf(hist'.log, "blocked", a) # {}

\* C24: when Activate is called on an inactive aura and one of its
\* exclusive effects refuses, the effects acquired in this call are
\* released again and nothing else is released after the refusal; the
\* aura stays inactive, is in no list, keeps its start and expiration
\* times, and its OnGain hook is not invoked
C24_RefusedActivateRollsBack ==
    [][\A a \in 1..Len(auras) : ActivateRefused(a) =>
        LET log == hist'.log
            k   == BlockedAt(log, a)
            u   == auras[a].Unit
        IN  /\ CategoriesOf(log, "released", a) = CategoriesOf(log, "acquired", a)
            /\ \A j \in (k + 1)..Len(log) :
                   /\ log[j][1] = "released"
                   /\ log[j][2] = a
                   /\ log[j][3] \in CategoriesOf(SubSeq(log, 1, k), "acquired", a)
            /\ \A c \in Categories : units'[u].activeEffect[c] # a
            /\ units'[u].activeEffect[log[k][3]] = units[u].activeEffect[log[k][3]]
            /\ ~auras'[a].active
            /\ auras'[a].startTime = auras[a].startTime
            /\ auras'[a].expires = auras[a].expires
            /\ \A c \in ListNames :
                   /\ auras'[a].index[c] = Inactive
                   /\ \A p \in 1..Len(units'[u].lists[c]) : units'[u].lists[c][p] # a
            /\ \A j \in 1..Len(log) : log[j] # <<"OnGain", a>>]_vars

\* Activate of aura 1 acquired c1, was refused in c2 by aura 2, and
\* released c1 again
C24_Witness ==
    /\ hist.call = <<"Activate", 1, 0>>
    /\ hist.log = <<<<"acquired", 1, "c1">>, <<"blocked", 1, "c2">>,
                    <<"released", 1, "c1">>>>
    /\ auras[2].active
    /\ ~auras[1].active

\* this step is SetStacks(n) called on aura a, whatever its state
SetStacksCall(a, n) ==
    /\ hist'.ops = hist.ops + 1
    /\ hist'.call = <<"SetStacks", a, n>>

\* the call failed at once: nothing was stored and no hook ran
FailedUnchanged ==
    /\ pc' = "panic"
    /\ auras' = auras
    /\ units' = units
    /\ hist'.log = << >>

\* C26 as stated: SetStacks with a negative count or a count above
\* MaxStacks is a fatal error that stores nothing and leaves the stacks and
\* the active flag as they were
C26_NegativeOrOverCapFatal ==
    [][\A a \in 1..Len(auras) : \A n \in StackCalls :
          SetStacksCall(a, n) /\ (n < 0 \/ n > auras[a].MaxStacks)
              => FailedUnchanged]_vars

\* C26, amended: a negative count is such a fatal error on every aura; a
\* count above MaxStacks is one only on an inactive aura or an aura with
\* MaxStacks = 0, and on an active aura with MaxStacks > 0 it is stored as
\* MaxStacks
C26_NegativeFatalOverCapClamped ==
    [][\A a \in 1..Len(auras) : \A n \in StackCalls :
          SetStacksCall(a, n) =>
              /\ n < 0 => FailedUnchanged
              /\ n > auras[a].MaxStacks =>
                    IF auras[a].active /\ auras[a].MaxStacks > 0
                    THEN /\ SetStacksTo(a, auras[a].MaxStacks)
                         /\ pc' # "panic" => /\ auras'[a].stacks = auras[a].MaxStacks
                                             /\ auras'[a].active
                    ELSE FailedUnchanged]_vars

\* SetStacks(-1) was called on an active aura holding a stack and failed
C26_Witness ==
    \E a \in 1..Len(auras) :
        /\ hist.call = <<"SetStacks", a, -1>>
        /\ pc = "panic"
        /\ auras[a].active
        /\ auras[a].stacks > 0
        /\ hist.log = << >>

----------------------------------------------------------------------------
(* The registration specification: characters, items and talents register
   auras on two units while the environment is constructed and, wrongly,
   after it is finalized *)

\* auraTracker.GetAura: the position of the first aura of unit u with the
\* label, 0 for nil
GetAura(w, u, label) ==
    LET A == w.units[u].auras
        P == {p \in 1..Len(A) : A[p].Label = label}
    IN  IF P = {} THEN 0 ELSE CHOOSE p \in P : \A q \in P : p <= q

\* the outcome of a registration call, for the record
Returned(w, kind, u, p) == [w EXCEPT !.hist.result = [kind |-> kind, unit |-> u, at |-> p]]

\* registerAura without the test for a label already registered
registerAura_NoDuplicateTest(w, u, aura) ==
    IF w.enc.finalized \/ aura.Label = "" \/ Len(w.units[u].auras) > AuraCap
    THEN Panic(w)
    ELSE Returned([w EXCEPT !.units[u].auras = Append(@, aura)],
                  "new", u, Len(w.units[u].auras) + 1)

\* auraTracker.registerAura, Unit.RegisterAura
registerAura(w, u, aura) ==
    IF \/ w.enc.finalized
       \/ aura.Label = ""
       \/ GetAura(w, u, aura.Label) # 0
       \/ Len(w.units[u].auras) > AuraCap
    THEN Panic(w)
    ELSE Returned([w EXCEPT !.units[u].auras = Append(@, aura)],
                  "new", u, Len(w.units[u].auras) + 1)

\* Unit.GetOrRegisterAura
GetOrRegisterAura(w, u, aura) ==
    LET cur == GetAura(w, u, aura.Label)
    IN  IF cur = 0 THEN registerAura(w, u, aura)
        ELSE Returned([w EXCEPT !.units[u].auras[cur].Icd = aura.Icd,
                                !.units[u].auras[cur].handlers = aura.handlers],
                      "existing", u, cur)

\* the auras handed to the registration calls
AuraArgs ==
    {[Label |-> l, Icd |-> i, handlers |-> h, Duration |-> d] :
        l \in AuraLabels, i \in {0}, h \in HandlerSets, d \in {NeverExpires}}

InitG ==
    /\ pc = "setup"
    /\ sim = ZeroSim
    /\ enc = [finalized |-> FALSE]
    /\ actions = << >>
    /\ auras = << >>
    /\ units = <<[auras |-> << >>], [auras |-> << >>]>>
    /\ hist = [ops |-> 0, call |-> <<"none", 0, "">>,
               result |-> [kind |-> "none", unit |-> 0, at |-> 0]]

RegisterReady == pc = "setup" /\ hist.ops < MaxRegisterOps

\* the handler that starts now
RegisterCall(w, name, u, label) ==
    [w EXCEPT !.hist.ops = @ + 1, !.hist.call = <<name, u, label>>,
              !.hist.result = [kind |-> "panic", unit |-> u, at |-> 0]]

CallRegisterAura ==
    /\ RegisterReady
    /\ \E u \in 1..Len(units) : \E aura \in AuraArgs :
          Commit(registerAura(RegisterCall(Cur, "RegisterAura", u, aura.Label), u, aura))

CallGetOrRegisterAura ==
    /\ RegisterReady
    /\ \E u \in 1..Len(units) : \E aura \in AuraArgs :
          Commit(GetOrRegisterAura(
                     RegisterCall(Cur, "GetOrRegisterAura", u, aura.Label), u, aura))

\* Environment.finalize
Finalize ==
    /\ RegisterReady
    /\ ~enc.finalized
    /\ Commit([Cur EXCEPT !.enc.finalized = TRUE])

NextG == CallRegisterAura \/ CallGetOrRegisterAura \/ Finalize

SpecG == InitG /\ [][NextG]_vars

\* no two registered auras of a unit have the same label
LabelsUnique ==
    \A u \in 1..Len(units) :
        \A p, q \in 1..Len(units[u].auras) :
            units[u].auras[p].Label = units[u].auras[q].Label => p = q

\* this step is the named call for unit u with a label the unit has an
\* aura registered under
CalledWithPresentLabel(name, u) ==
    /\ hist'.ops = hist.ops + 1
    /\ hist'.call[1] = name
    /\ hist'.call[2] = u
    /\ \E p \in 1..Len(units[u].auras) : units[u].auras[p].Label = hist'.call[3]

\* C25: after any sequence of RegisterAura and GetOrRegisterAura calls no
\* two registered auras of a unit have the same label; RegisterAura with a
\* label already present fails fatally and leaves the registry unchanged;
\* GetOrRegisterAura with a label already present returns the aura that is
\* registered under the label and adds no entry
C25_LabelsUnique ==
    /\ []LabelsUnique
    /\ [][\A u \in 1..Len(units) :
            /\ CalledWithPresentLabel("RegisterAura", u) =>
                  pc' = "panic" /\ units' = units
            /\ CalledWithPresentLabel("GetOrRegisterAura", u) =>
                  /\ pc' # "panic"
                  /\ hist'.result.kind = "existing"
                  /\ units[u].auras[hist'.result.at].Label = hist'.call[3]
                  /\ \A v \in 1..Len(units) :
                         /\ Len(units'[v].auras) = Len(units[v].auras)
                         /\ \A p \in 1..Len(units[v].auras) :
                                units'[v].auras[p].Label = units[v].auras[p].Label]_vars

\* both units have both labels registered, and the last call was a
\* GetOrRegisterAura that found its label present
C25_Witness ==
    /\ \A u \in 1..Len(units) : Len(units[u].auras) = 2
    /\ hist.call[1] = "GetOrRegisterAura"
    /\ hist.result.kind = "existing"

----------------------------------------------------------------------------
(* Claims about the end of the event loop and the expiration caches *)

\* the queue is exhausted of substantive work: only the sentinel is queued
\* and no weapon attack or task is due
OnlySentinelLeft ==
    /\ pc = "loop"
    /\ sim.pendingActions = <<Sentinel>>
    /\ sim.minWeaponAttackTime = NeverExpires
    /\ sim.minTaskTime = NeverExpires

\* C28: when only the sentinel remains in the queue and no weapon attack or
\* task is due, the next Step reports finished without failing, in
\* duration-based and in health-based encounters alike, the damage
\* threshold reached or not
C28_ExhaustedQueueFinishes ==
    [][OnlySentinelLeft => pc' = "finished"]_vars

\* a Step of a health-based encounter that found only the sentinel, with
\* the damage threshold not reached, failed
C28_Witness ==
    /\ pc = "panic"
    /\ enc.EndFightAtHealth > 0
    /\ enc.DamageTaken <= sim.endOfCombatDamage
    /\ hist.lastStep.head = NeverExpires
    /\ hist.lastStep.minWeapon = NeverExpires
    /\ hist.lastStep.minTask = NeverExpires
    /\ ~hist.lastStep.fin

\* C29: whenever OnGain of an aura is invoked the aura is active, its start
\* and expiration times are stamped and it is in every list it has a
\* handler for; whenever OnExpire of an aura is invoked the aura is
\* inactive, removed from every dispatch array and from the
\* expiration-scan list with the indices of the others fixed, its stacks
\* are 0 and its exclusive effects are released
C29_HooksSeeConsistentBookkeeping == ~hist.gainBad /\ ~hist.expireBad

\* aura 2 took category c2 from aura 1, which held two stacks: the hooks
\* of aura 1 ran for the stacks and the expiry, and then OnGain of aura 2
C29_Witness ==
    /\ hist.call = <<"Activate", 2, 0>>
    /\ \E i, j, k \in 1..Len(hist.log) :
          /\ i < j /\ j < k
          /\ hist.log[i] = <<"OnStacksChange", 1, 2, 0>>
          /\ hist.log[j] = <<"OnExpire", 1>>
          /\ hist.log[k] = <<"OnGain", 2>>
    /\ auras[2].active

----------------------------------------------------------------------------
(* The cache specification: the aura operations that set expiration times,
   snapshots taken with SaveState and put back with RestoreState, and
   advances of the clock *)

InitC ==
    \E w \in {AuraWorld(LifeConfig)} :
        /\ pc = "life"
        /\ sim = w.sim
        /\ enc = w.enc
        /\ actions = w.actions
        /\ auras = w.auras
        /\ units = w.units
        /\ hist = w.hist

\* a callback extends an active aura: aura.UpdateExpires(aura.ExpiresAt() + d)
CallUpdateExpires ==
    /\ LifeReady
    /\ \E a \in 1..Len(auras) :
          /\ auras[a].active
          /\ auras[a].Duration # NeverExpires
          /\ Commit(UpdateExpires(Call(Cur, "UpdateExpires", a, 0), a,
                                  ExpiresAt(Cur, a) + Extension))

\* the caller takes a snapshot of an aura and keeps it
CallSaveState ==
    /\ LifeReady
    /\ \E a \in 1..Len(auras) :
          /\ \/ auras[a].saved # SaveState(Cur, a)
             \/ auras[a].savedActive # auras[a].active
          /\ Commit([Cur EXCEPT !.auras[a].saved = SaveState(Cur, a),
                                !.auras[a].savedActive = auras[a].active])

\* the caller puts the snapshot it kept back
CallRestoreState ==
    /\ LifeReady
    /\ \E a \in 1..Len(auras) :
          Commit(RestoreState(Call(Cur, "RestoreState", a, 0), a, auras[a].saved))

NextC ==
    \/ CallActivate
    \/ CallDeactivate
    \/ CallAddStack
    \/ CallRefresh
    \/ CallUpdateExpires
    \/ CallSaveState
    \/ CallRestoreState
    \/ CallAdvance

SpecC == InitC /\ [][NextC]_vars

\* an active aura of finite duration
ActiveFinite(a) == auras[a].active /\ auras[a].Duration # NeverExpires

\* C30: between operations the minExpires of every unit is at most the
\* expiration of each of its active auras of finite duration, and
\* sim.minTrackerTime is at most the minExpires of every tracked unit,
\* after any sequence of Activate, Refresh, Deactivate, UpdateExpires,
\* RestoreState and advances of the clock; and after an advance no active
\* aura of finite duration has an expiration the clock has reached
C30_CachesNeverStaleHigh ==
    pc # "panic" =>
        /\ \A a \in 1..Len(auras) :
              ActiveFinite(a) => units[auras[a].Unit].minExpires <= auras[a].expires
        /\ \A i \in 1..Len(sim.trackers) :
              sim.minTrackerTime <= units[sim.trackers[i]].minExpires
        /\ hist.call[1] = "advance" =>
              \A a \in 1..Len(auras) :
                  ActiveFinite(a) => auras[a].expires > sim.CurrentTime

\* RestoreState put back a snapshot taken when the aura had less time left
\* than it has now: the aura expires before the minExpires of its unit
C30_Witness ==
    \E a \in 1..Len(auras) :
        /\ hist.call = <<"RestoreState", a, 0>>
        /\ pc = "life"
        /\ ActiveFinite(a)
        /\ auras[a].saved.RemainingDuration > 0
        /\ auras[a].expires < units[auras[a].Unit].minExpires
        /\ auras[a].expires < sim.minTrackerTime

----------------------------------------------------------------------------
(* The cadence specification: the driver of the step specification, with
   callbacks that change the swing or run time of a subscriber and
   reschedule the cadence *)

\* Simulation.rescheduleWeaponAttack that stores the time it is given
rescheduleWeaponAttack_Stores(w, weaponAttackTime) ==
    [w EXCEPT !.sim.minWeaponAttackTime = weaponAttackTime]

\* Simulation.rescheduleWeaponAttack
rescheduleWeaponAttack(w, weaponAttackTime) ==
    [w EXCEPT !.sim.minWeaponAttackTime = Min(@, weaponAttackTime)]

\* Simulation.RescheduleTask
RescheduleTask(w, taskTime) ==
    [w EXCEPT !.sim.minTaskTime = Min(@, taskTime)]

RescheduleReady == pc = "loop" /\ hist.ops < MaxReschedules

\* a weapon attack's swing time changes (haste, a swing reset) and the
\* attack reschedules the cadence
DoRescheduleWeaponAttack ==
    /\ RescheduleReady
    /\ \E i \in 1..Len(sim.weaponAttacks) : \E d \in RescheduleDelays :
          Commit(rescheduleWeaponAttack(
                    [Cur EXCEPT !.sim.weaponAttacks[i].swingAt = sim.CurrentTime + d,
                                !.hist.ops = @ + 1],
                    sim.CurrentTime + d))

\* a task's run time changes and the task reschedules the cadence
DoRescheduleTask ==
    /\ RescheduleReady
    /\ \E i \in 1..Len(sim.tasks) : \E d \in RescheduleDelays :
          Commit(RescheduleTask(
                    [Cur EXCEPT !.sim.tasks[i].runAt = sim.CurrentTime + d,
                                !.hist.ops = @ + 1],
                    sim.CurrentTime + d))

NextW ==
    \/ DoReset
    \/ DoAddPendingAction
    \/ DoPrePull
    \/ DoStep
    \/ DoCleanup
    \/ DoRescheduleWeaponAttack
    \/ DoRescheduleTask

\* the encounters of the step specification that have subscribers, with
\* room for two queued actions
CadenceEncounters ==
    {[e EXCEPT !.maxActions = 2] : e \in {x \in StepEncounters : x.weapons > 0}}

InitW ==
    /\ pc = "new"
    /\ sim = ZeroSim
    /\ enc \in CadenceEncounters
    /\ actions = << >>
    /\ auras = << >>
    /\ units = << >>
    /\ hist = ZeroHist

SpecW == InitW /\ [][NextW]_vars

----------------------------------------------------------------------------
(* Claims about the cadences, the queue order and the fan-outs *)

\* this step is a Step that services the named cadence
Serviced(cadence) ==
    /\ pc = "loop"
    /\ pc' # "finished"
    /\ hist'.lastStep # hist.lastStep \/ sim' # sim
    /\ hist'.lastStep.src = cadence
    /\ hist'.ops = hist.ops

\* what a Step that services a cadence with cached minimum min and n
\* subscribers does: the clock goes to min, or stays when it is there or
\* past it; every subscriber is scanned once, in order; the new cached
\* minimum newMin is at most each time a subscriber answered
ServicedRight(cadence, min, n, newMin) ==
    /\ sim'.CurrentTime = Max(sim.CurrentTime, min)
    /\ Len(hist'.scan) = n
    /\ \A i \in 1..n :
          /\ hist'.scan[i][1] = cadence
          /\ hist'.scan[i][2] = i
          /\ newMin <= hist'.scan[i][3]

----------------------------------------------------------------------------
(* Queue order under interleaved AddPendingAction and Step *)

\* this step is a Step that ran the OnAction of the action at the end of the queue
StepExecutesHead ==
    /\ pc = "loop"
    /\ hist'.lastStep.src = "queue"
    /\ Last(sim.pendingActions) # Sentinel
    /\ actions'[Last(sim.pendingActions)].onActionRuns
          = actions[Last(sim.pendingActions)].onActionRuns + 1

\* C32 as stated: whenever Step executes a queue action, with actions added
\* before the pull, from inside running callbacks and with due times in the
\* past, no action queued at the moment its OnAction is invoked is due
\* earlier, or at the same time with a higher priority; it runs with the
\* clock at max(previous clock, its due time), and a due time in the past
\* leaves the clock where it was
C32_EarliestHighestWhenRun ==
    [][StepExecutesHead =>
          LET id == Last(sim.pendingActions)
              at == actions[id].NextActionAt
          IN  /\ ~hist'.headBad
              /\ actions'[id].ranAt = Max(sim.CurrentTime, at)
              /\ at < sim.CurrentTime => sim'.CurrentTime = sim.CurrentTime]_vars

\* C32, amended: the action Step executes has the smallest due time, and the
\* highest priority among those due at the same time, of the actions queued
\* when that Step begins; it runs with the clock at max(previous clock, its
\* due time), and a due time in the past leaves the clock where it was
C32_EarliestHighestFirst ==
    [][StepExecutesHead =>
          LET id == Last(sim.pendingActions)
              at == actions[id].NextActionAt
          IN  /\ \A p \in 2..Len(sim.pendingActions) :
                    LET o == sim.pendingActions[p]
                    IN  /\ at <= actions[o].NextActionAt
                        /\ at = actions[o].NextActionAt
                              => actions[id].Priority >= actions[o].Priority
              /\ actions'[id].ranAt = Max(sim.CurrentTime, at)
              /\ at < sim.CurrentTime => sim'.CurrentTime = sim.CurrentTime]_vars

\* an action added by a callback with a due time in the past has run, at a
\* clock later than its due time
C32_Witness ==
    /\ hist.lateAdd
    /\ \E id \in 1..Len(actions) :
          /\ actions[id].onActionRuns = 1
          /\ actions[id].ranAt > actions[id].NextActionAt
          /\ actions[id].ranAt = sim.CurrentTime

----------------------------------------------------------------------------
(* The fan-out specification: three auras of one unit, subscribed to both
   dispatch categories, are activated and deactivated, and events are fired
   whose handlers deactivate auras of the unit *)

\* the fan-outs that test aura.active before they call the handler
ChecksActive == {"onSpellHitDealtAuras"}

FanConfig ==
    <<NewAura(1, NeverExpires, 0, Cats, 0),
      NewAura(1, NeverExpires, 0, Cats, 0),
      NewAura(1, NeverExpires, 0, Cats, 0)>>

\* what the handler of each aura does when it is called: nothing (0), or
\* Deactivate on the aura named
HandlerPlans == [1..Len(FanConfig) -> 0..Len(FanConfig)]

\* the memory of the dispatch array after Deactivate(t): removeBySwappingToBack
\* writes the last element over the removed one and shortens the slice; the
\* slot behind the new end keeps its content
BackingAfter(w, c, t, arr) ==
    LET idx == w.auras[t].index[c]
        L   == w.units[w.auras[t].Unit].lists[c]
    IN  IF w.auras[t].active /\ idx # Inactive
        THEN [arr EXCEPT ![idx + 1] = L[Len(L)]]
        ELSE arr

\* auraTracker.OnApplyEffects .. OnEncounterStart: "for _, aura := range
\* at.<c>" walks the n slots the slice had when the loop began and reads
\* each slot, arr[i], when it gets there
RECURSIVE FanOut(_, _, _, _, _, _)
FanOut(w, c, plan, arr, i, n) ==
    IF i > n \/ w.pc = "panic" THEN w
    ELSE IF c \in ChecksActive /\ ~w.auras[arr[i]].active
    THEN FanOut(w, c, plan, arr, i + 1, n)
    ELSE FanOut(IF plan[arr[i]] = 0
                THEN Log(w, <<"Handler", arr[i], w.auras[arr[i]].active>>)
                ELSE Deactivate(Log(w, <<"Handler", arr[i], w.auras[arr[i]].active>>),
                                plan[arr[i]]),
                c, plan,
                IF plan[arr[i]] = 0 THEN arr ELSE BackingAfter(w, c, plan[arr[i]], arr),
                i + 1, n)

\* an event of category c is fired on unit 1
FireEvent ==
    /\ LifeReady
    /\ \E c \in Cats : \E plan \in HandlerPlans :
          Commit(FanOut(Call(Cur, c, 0, 0), c, plan,
                        units[1].lists[c], 1, Len(units[1].lists[c])))

InitF ==
    \E w \in {AuraWorld(FanConfig)} :
        /\ pc = "life"
        /\ sim = w.sim
        /\ enc = w.enc
        /\ actions = w.actions
        /\ auras = w.auras
        /\ units = w.units
        /\ hist = w.hist

NextF ==
    \/ CallActivate
    \/ CallDeactivate
    \/ FireEvent

SpecF == InitF /\ [][NextF]_vars

\* the last operation was a fan-out
Fired == hist.call[1] \in Cats

\* the handler calls of the last fan-out: position in hist.log
HandlerCalls == {i \in 1..Len(hist.log) : hist.log[i][1] = "Handler"}

\* C33: in one fan-out the handler of each aura is invoked at most once,
\* also when handlers deactivate their own aura or other auras of the unit
C33_HandlerAtMostOnce ==
    Fired => \A i, j \in HandlerCalls : hist.log[i][2] = hist.log[j][2] => i = j

\* a fan-out in which a handler deactivated an aura and a handler ran after it
C33_Witness ==
    /\ Fired
    /\ \E i, j \in 1..Len(hist.log) :
          /\ i < j
          /\ hist.log[i][1] = "OnExpire"
          /\ hist.log[j][1] = "Handler"

\* C34: in the fan-out of every category, the aura whose handler is invoked
\* is active at that moment
C34_HandlerOnlyWhenActive ==
    Fired => \A i \in HandlerCalls : hist.log[i][3]

\* a fan-out of a category that tests aura.active reached an aura that an
\* earlier handler had deactivated, and skipped it
C34_Witness ==
    /\ hist.call[1] \in ChecksActive
    /\ \E a \in 1..Len(auras) :
          /\ \E i \in 1..Len(hist.log) : hist.log[i] = <<"OnExpire", a>>
          /\ \A i \in HandlerCalls : hist.log[i][2] # a

----------------------------------------------------------------------------
(* The dependent-aura specification: aura 1 (the parent) has aura 2 attached
   with AttachDependentAura; only the parent is operated on, and the clock
   advances *)

Parent == 1

Sibling == 2

\* parent and sibling with finite and unbounded durations; the sibling
\* without stacks, with fewer stacks than the parent, and with as many
DependentConfigs ==
    {<<NewAura(1, d1, 2, {"onApplyEffectsAuras"}, Sibling),
       NewAura(2, d2, m2, {"onSpellHitDealtAuras"}, 0)>> :
        d1 \in {2, NeverExpires}, d2 \in {2, NeverExpires}, m2 \in {0, 1, 2}}

InitH ==
    \E cfg \in DependentConfigs :
        \E w \in {AuraWorld(cfg)} :
            /\ pc = "life"
            /\ sim = w.sim
            /\ enc = w.enc
            /\ actions = w.actions
            /\ auras = w.auras
            /\ units = w.units
            /\ hist = w.hist

ParentActivate ==
    /\ LifeReady
    /\ Commit(Activate(Call(Cur, "Activate", Parent, 0), Parent))

ParentDeactivate ==
    /\ LifeReady
    /\ Commit(Deactivate(Call(Cur, "Deactivate", Parent, 0), Parent))

ParentSetStacks ==
    /\ LifeReady
    /\ \E n \in StackCalls :
          Commit(SetStacks(Call(Cur, "SetStacks", Parent, n), Parent, n))

NextH ==
    \/ ParentActivate
    \/ ParentDeactivate
    \/ ParentSetStacks
    \/ CallAdvance

SpecH == InitH /\ [][NextH]_vars

\* the sibling mirrors the parent
Mirrors ==
    /\ auras[Sibling].active <=> auras[Parent].active
    /\ auras[Sibling].MaxStacks > 0 =>
          auras[Sibling].stacks = Min(auras[Parent].stacks, auras[Sibling].MaxStacks)

\* this step is an operation that failed, and not for a reason of the
\* parent's own: a negative stack count, or stacks on an inactive parent
FailsForSibling ==
    /\ pc = "life"
    /\ pc' = "panic"
    /\ ~ /\ hist'.call[1] = "SetStacks"
         /\ \/ hist'.call[3] < 0
            \/ hist'.call[3] # 0 /\ ~auras[Parent].active

----------------------------------------------------------------------------
(* SaveState and RestoreState as a round trip *)

\* this step is RestoreState on aura a, and it returned
Restores(a) == hist'.call = <<"RestoreState", a, 0>> /\ pc' = "life"

\* the state put back is the one SaveState answers now
SavedNow(a) == auras[a].saved = SaveState(Cur, a)

\* the step leaves the active flag, the remaining duration and the stacks
\* of aura a as they were
Unchanged(a) ==
    /\ auras'[a].active = auras[a].active
    /\ auras'[a].stacks = auras[a].stacks
    /\ auras[a].active =>
          auras'[a].expires - sim'.CurrentTime = auras[a].expires - sim.CurrentTime

\* after the step aura a is active with the saved remaining duration and stacks
AsSaved(a) ==
    /\ auras'[a].active
    /\ auras'[a].expires - sim'.CurrentTime = auras[a].saved.RemainingDuration
    /\ auras'[a].stacks = auras[a].saved.Stacks

\* C36: RestoreState of what SaveState answers at the same clock time leaves
\* the active flag, remaining duration and stacks of an active and of an
\* inactive aura unchanged; RestoreState of a state saved from an active
\* aura, later or after the aura changed, makes the aura active with the
\* saved remaining duration and stacks
C36_SaveRestoreRoundTrip ==
    [][\A a \in 1..Len(auras) :
          Restores(a) =>
              /\ SavedNow(a) => Unchanged(a)
              /\ auras[a].savedActive => AsSaved(a)]_vars

\* a state saved from an active aura with stacks was restored at a later
\* time, after the aura had faded
C36_Witness ==
    \E a \in 1..Len(auras) :
        /\ hist.call = <<"RestoreState", a, 0>>
        /\ auras[a].savedActive
        /\ auras[a].saved.Stacks > 0
        /\ auras[a].fadeTime >= 0
        /\ auras[a].startTime = sim.CurrentTime
        /\ auras[a].stacks = auras[a].saved.Stacks

----------------------------------------------------------------------------
(* The end-of-iteration specification: three auras of one unit whose OnExpire
   hooks activate or deactivate another aura of the unit; auras are
   activated and stacked, then auraTracker.doneIteration runs, one
   Deactivate of its restart loop at a time *)

\* what an OnExpire hook does: nothing, or Activate or Deactivate on
\* another aura
ExpireHooks(a, n) ==
    {[op |-> "none", aura |-> 0]}
    \cup {[op |-> o, aura |-> b] : o \in {"Activate", "Deactivate"}, b \in (1..n) \ {a}}

DoneConfigs ==
    {<<[NewAura(1, 2, 2, {"onApplyEffectsAuras"}, 0) EXCEPT !.expireHook = h1],
       [NewAura(1, NeverExpires, 0, {"onSpellHitDealtAuras"}, 0) EXCEPT !.expireHook = h2],
       [NewAura(1, 3, 0, Cats, 0) EXCEPT !.expireHook = h3]>> :
        h1 \in ExpireHooks(1, 3), h2 \in ExpireHooks(2, 3), h3 \in ExpireHooks(3, 3)}

InitI ==
    \E cfg \in DoneConfigs :
        \E w \in {AuraWorld(cfg)} :
            /\ pc = "life"
            /\ sim = w.sim
            /\ enc = w.enc
            /\ actions = w.actions
            /\ auras = w.auras
            /\ units = w.units
            /\ hist = w.hist

\* observation: the OnExpire calls of the Deactivate just made, added to
\* the count of each aura (2 stands for two or more)
Tally(w) ==
    [w EXCEPT !.hist.expired = [a \in DOMAIN @ |->
        Min(2, @[a] + Cardinality({i \in 1..Len(w.hist.log) :
                                      w.hist.log[i] = <<"OnExpire", a>>}))]]

\* the restart loop without the permanent auras
doneIterationStep_SparesPermanent(w) ==
    LET act == {a \in 1..Len(w.auras) :
                   w.auras[a].active /\ w.auras[a].Duration # NeverExpires}
    IN  IF act = {}
        THEN [DoneAuras(w, 1) EXCEPT !.pc = IF @ = "panic" THEN @ ELSE "done"]
        ELSE IF <<w.auras, w.units>> \in w.hist.heads
        THEN [w EXCEPT !.pc = "spin"]
        ELSE Tally(Deactivate([w EXCEPT !.hist.log = << >>,
                                        !.hist.heads = @ \cup {<<w.auras, w.units>>}],
                              CHOOSE a \in act : \A b \in act : a <= b))

\* auraTracker.doneIteration: one round of the restart loop, Deactivate on
\* the first aura found active and "goto restart"; when the scan finds none,
\* Aura.doneIteration on every aura.  The loop is deterministic in the auras
\* and the lists: when a round begins with them as they were at the
\* beginning of an earlier round, the loop never ends (pc "spin")
doneIterationStep(w) ==
    LET act == {a \in 1..Len(w.auras) : w.auras[a].active}
    IN  IF act = {}
        THEN [DoneAuras(w, 1) EXCEPT !.pc = IF @ = "panic" THEN @ ELSE "done"]
        ELSE IF <<w.auras, w.units>> \in w.hist.heads
        THEN [w EXCEPT !.pc = "spin"]
        ELSE Tally(Deactivate([w EXCEPT !.hist.log = << >>,
                                        !.hist.heads = @ \cup {<<w.auras, w.units>>}],
                              CHOOSE a \in act : \A b \in act : a <= b))

\* the iteration ends: auraTracker.doneIteration is entered
CallDoneIteration ==
    /\ pc = "life"
    /\ Commit([Call(Cur, "doneIteration", 0, 0) EXCEPT
                  !.pc = "doneIter",
                  !.hist.wasActive = {a \in 1..Len(auras) : auras[a].active},
                  !.hist.expired = [a \in 1..Len(auras) |-> 0],
                  !.hist.heads = {}])

DoneIterationStep ==
    /\ pc = "doneIter"
    /\ Commit(doneIterationStep(Cur))

NextI ==
    \/ CallActivate
    \/ CallAddStack
    \/ CallDoneIteration
    \/ DoneIterationStep

SpecI == InitI /\ [][NextI]_vars

\* the pass neither loops for ever nor fails, and when it has returned
\* every aura is inactive without stacks and each aura that was active when
\* the pass began had its OnExpire hook run once
PassClean ==
    /\ pc # "spin"
    /\ hist.call[1] = "doneIteration" => pc # "panic"
    /\ pc = "done" =>
          /\ \A a \in 1..Len(auras) : ~auras[a].active /\ auras[a].stacks = 0
          /\ \A a \in hist.wasActive : hist.expired[a] = 1

\* no OnExpire hook activates an aura
NoHookActivates == \A a \in 1..Len(auras) : auras[a].expireHook.op # "Activate"

----------------------------------------------------------------------------
(* The progress channel of RunSim *)

\* the progress messages that carry FinalRaidResult
FinalReports == {"Done", "Aborted", "Error", "PresimError"}

\* once the channel is closed nothing more is sent on it and it is not
\* closed again
ClosedStaysClosed ==
    hist.closed > 0 => hist'.reports = hist.reports /\ hist'.closed = hist.closed

\* RunSim has returned with the channel closed once, the last message sent
\* on it carrying the final result
ClosedAfterFinal ==
    /\ hist.closed = 1
    /\ hist.reports # << >>
    /\ hist.reports[Len(hist.reports)] \in FinalReports

\* C38 as stated: whatever the options, when RunSim is given a progress
\* channel and returns (after completion, a pre-simulation error, an abort
\* or a recovered panic), the channel has been closed exactly once, after a
\* last message that carries the final result, and nothing is sent later
C38_ChannelClosedOnce ==
    [][/\ ClosedStaysClosed
       /\ (pc' = "returned" /\ sim.progress) => ClosedAfterFinal']_vars

\* C38, amended: so it is when Options.IsTest is not set; when it is set
\* the channel is never closed
C38_ChannelClosedOnceUnlessTest ==
    [][/\ ClosedStaysClosed
       /\ (pc' = "returned" /\ sim.progress) =>
              IF sim.Options.IsTest THEN hist'.closed = 0 ELSE ClosedAfterFinal']_vars

\* a run with a progress channel and without IsTest was aborted after its
\* pre-simulations and a progress report, and closed the channel
C38_Witness ==
    /\ pc = "returned"
    /\ sim.progress
    /\ ~sim.Options.IsTest
    /\ hist.closed = 1
    /\ hist.result = "Aborted"
    /\ \E k \in 1..Len(hist.reports) : hist.reports[k] = "Progress"

----------------------------------------------------------------------------
(* Proc with a certain outcome *)

\* this step is a call of Proc with p <= 0 or p >= 1
CertainProc ==
    /\ hist'.ops = hist.ops + 1
    /\ hist'.call[1] = "Proc"
    /\ hist'.call[4] <= 0 \/ hist'.call[4] >= RandModulus

\* C39: Proc(p, label) with p <= 0 or p >= 1 draws nothing: the root stream
\* and every label stream of both simulations are as they were (no label
\* stream is created either), so every later draw answers what it would
\* have answered without the call
C39_CertainProcDrawsNothing ==
    [][CertainProc => sim' = sim /\ hist'.out = hist.out]_vars

\* a simulation in test mode that had drawn under one label was asked
\* Proc with a certain outcome under a label that has no stream yet
C39_Witness ==
    /\ hist.call[1] = "Proc"
    /\ hist.call[4] >= RandModulus
    /\ sim[hist.call[2]].isTest
    /\ hist.call[3] \notin DOMAIN sim[hist.call[2]].testRands
    /\ hist.out[hist.call[2]] # << >>

----------------------------------------------------------------------------
(* CleanUp hooks of the actions that never ran *)

\* C40: when Cleanup has returned, every action added during the iteration
\* with a CleanUp hook whose OnAction did not run has had the hook called
\* exactly once, the uncancelled action that Step popped when it reported
\* finished included
C40_UnrunActionsCleanedUp ==
    pc = "done" =>
        \A id \in 1..Len(actions) :
            (actions[id].hadCleanUp /\ actions[id].onActionRuns = 0)
                => actions[id].cleanUpRuns = 1

\* the iteration ended with a Step that popped an uncancelled action with a
\* CleanUp hook, due after the end of combat, and Cleanup has returned
C40_Witness ==
    /\ pc = "done"
    /\ hist.lastStep.fin
    /\ hist.lastStep.src = "queue"
    /\ hist.lastStep.id # Sentinel
    /\ actions[hist.lastStep.id].hadCleanUp
    /\ ~actions[hist.lastStep.id].cancelled
    /\ actions[hist.lastStep.id].onActionRuns = 0
    /\ actions[hist.lastStep.id].disposed = 1

====
